---- MODULE Spec2Model ----
(***************************************************************************)
(* The three-stage council engine of backend-go: QueryModelsParallel       *)
(* (openrouter.go), the stage functions, the ranking parser, the           *)
(* aggregator and RunFullCouncil (council.go).                             *)
(*                                                                         *)
(* A text is a sequence of lexical tokens: the marker "FINAL RANKING:",    *)
(* one decimal digit, ".", one whitespace character, a label               *)
(* "Response <uppercase letter>", or any other word.  The empty text is    *)
(* <<>>.  A *OpenRouterResponse is <<>> (nil) or <<[Content |-> text]>>.   *)
(* An error is a string; "nil" is the nil error.                           *)
(***************************************************************************)
EXTENDS Integers, Sequences, FiniteSets, TLC

\* Largest council the model configures.
MaxModels == 2

\* Longest ranking text, in tokens, handed to the parser on its own.
MaxTextLen == 6

\* Longest parsed order handed to the aggregator on its own.
MaxParsedLen == 2

\* Stage-1 results handed to the labelling loop of Stage2CollectRankings
MaxResults == 27

VARIABLES
  CouncilModels,      \* config.go: the council list of this run
  ChairmanModel,      \* config.go: the chairman of this run
  userQuery,          \* the caller's question
  cancelled,          \* the caller's ctx is done
  pc,                 \* RunFullCouncil: "stage1", "stage2", "stage3", "done", "failed"
  task,               \* task[s][i]: the goroutine of call s for models[i]
  results,            \* results[s]: the results map of call s
  mu,                 \* mu[s]: the index of the goroutine holding the mutex, 0 if free
  gerr,               \* gerr[s]: the first non-nil error a goroutine returned to the errgroup
  qmp,                \* qmp[s]: Nil, or <<what call s of QueryModelsParallel returned>>
  messages,           \* messages[s]: the content sent in stage s
  chairman,           \* the QueryModel call of Stage3SynthesizeFinal
  stage1Results, stage2Results, labelToModel, aggregateRankings, stage3Result,
  ret,                \* what RunFullCouncil returned
  parserText,         \* the argument of a direct call of ParseRankingFromText
  parserResult,       \* Nil, or <<what that call returned>>
  file,               \* storage.go: Nil, or <<the JSON document of the conversation file>>
  hpc,                \* the HTTP handler's position
  hconv,              \* the conversation loaded by the storage call of the handler
  tpc,                \* the title goroutine's position, "none" if it was not started
  tconv,              \* the conversation loaded by the storage call of the goroutine
  title,              \* Nil, or <<what GenerateConversationTitle returned>>
  titleChan,          \* Nil, or <<the state of the channel>>
  events,             \* the "type" of every SSE event written so far
  status,             \* the HTTP status of c.JSON, 0 if none was written
  got                 \* Nil, or <<what a final GetConversation returned>>

\* the state of a direct call of the parser
parserVars == << parserText, parserResult >>

\* the state of the HTTP handlers and of the conversation file
serverVars ==
  << file, hpc, hconv, tpc, tconv, title, titleChan, events, status, got >>

vars ==
  << CouncilModels, ChairmanModel, userQuery, cancelled, pc, task, results, mu,
     gerr, qmp, messages, chairman, stage1Results, stage2Results, labelToModel,
     aggregateRankings, stage3Result, ret, parserText, parserResult,
     file, hpc, hconv, tpc, tconv, title, titleChan, events, status, got >>

----------------------------------------------------------------------------
(* Configuration (config.go)                                               *)

ModelPool ==
  << "openai/gpt-5.1", "google/gemini-3-pro-preview",
     "anthropic/claude-sonnet-4.5", "x-ai/grok-4" >>

\* CouncilModels is a list of distinct identifiers; tests shorten it, down to
\* the empty list.
CouncilChoices == { SubSeq(ModelPool, 1, n) : n \in 0..MaxModels }

\* The configured chairman is the second council model; tests replace it by
\* a model outside the council.
ChairmanChoices == { ModelPool[2], "test/chairman" }

Queries == { "What is Go?" }

Nil == <<>>
NoError == "nil"

----------------------------------------------------------------------------
(* Texts                                                                   *)

Marker == "FINAL RANKING:"
Digits == { "0", "1", "2", "3", "4", "5", "6", "7", "8", "9" }
Whitespace == { " ", "\n", "\t" }
Runes ==
  << "A", "B", "C", "D", "E", "F", "G", "H", "I", "J", "K", "L", "M",
     "N", "O", "P", "Q", "R", "S", "T", "U", "V", "W", "X", "Y", "Z",
     "[", "\\", "]", "^", "_" >>
\* The tokens the pattern Response [A-Z] matches.
ResponseLabels == { "Response " \o Runes[i] : i \in 1..26 }

\* Stage-1 answers the model servers may give (one of them the empty text).
AnswerTexts == { <<>>, <<"Go", " ", "is", " ", "a", " ", "language">> }

\* Stage-2 evaluations the model servers may give.
RankingTexts ==
  { << "FINAL RANKING:", "\n", "1", ".", " ", "Response B", "\n",
       "2", ".", " ", "Response A" >>,
    << "Response A", " ", "wins", "FINAL RANKING:", "none" >>,
    << "no", " ", "ranking" >> }

SynthesisTexts == { <<"Go", " ", "is", " ", "from", " ", "Google">> }

----------------------------------------------------------------------------
(* ParseRankingFromText (council.go)                                       *)

\* strings.Contains
Contains(text, tok) == \E i \in 1..Len(text) : text[i] = tok

\* index of the first occurrence of tok at or after p, Len(text)+1 if none
RECURSIVE IndexFrom(_, _, _)
IndexFrom(text, tok, p) ==
  IF p > Len(text) THEN p
  ELSE IF text[p] = tok THEN p
  ELSE IndexFrom(text, tok, p + 1)

\* strings.Split: the pieces between all occurrences of sep
SplitWhole(text, sep) == << << >>, text >>
RECURSIVE Split(_, _)
Split(text, sep) ==
  LET k == IndexFrom(text, sep, 1)
  IN  IF k > Len(text) THEN << text >>
      ELSE << SubSeq(text, 1, k - 1) >> \o Split(SubSeq(text, k + 1, Len(text)), sep)

\* first position at or after p whose token is not in S
RECURSIVE SkipWhile(_, _, _)
SkipWhile(text, p, S) ==
  IF p <= Len(text) /\ text[p] \in S THEN SkipWhile(text, p + 1, S) ELSE p

\* \d+\.\s*Response [A-Z] anchored at s: the index of the last token of the
\* match, 0 when there is no match at s
NumberedMatchEnd(text, s) ==
  IF s > Len(text) \/ text[s] \notin Digits THEN 0
  ELSE LET t == SkipWhile(text, s, Digits)
       IN  IF t > Len(text) \/ text[t] # "." THEN 0
           ELSE LET u == SkipWhile(text, t + 1, Whitespace)
                IN  IF u <= Len(text) /\ text[u] \in ResponseLabels THEN u ELSE 0

\* numberedPattern.FindAllString(text, -1): leftmost non-overlapping matches
RECURSIVE FindAllNumbered(_, _)
FindAllNumbered(text, p) ==
  IF p > Len(text) THEN << >>
  ELSE LET u == NumberedMatchEnd(text, p)
       IN  IF u > 0 THEN << SubSeq(text, p, u) >> \o FindAllNumbered(text, u + 1)
           ELSE FindAllNumbered(text, p + 1)

\* responsePattern.FindAllString(text, -1)
RECURSIVE FindAllResponseUnique(_, _)
FindAllResponseUnique(text, p) ==
  IF p > Len(text) THEN << >>
  ELSE IF text[p] \in ResponseLabels /\ \A q \in 1..(p - 1) : text[q] # text[p]
       THEN << text[p] >> \o FindAllResponseUnique(text, p + 1)
       ELSE FindAllResponseUnique(text, p + 1)
RECURSIVE FindAllResponse(_, _)
FindAllResponse(text, p) ==
  IF p > Len(text) THEN << >>
  ELSE IF text[p] \in ResponseLabels
       THEN << text[p] >> \o FindAllResponse(text, p + 1)
       ELSE FindAllResponse(text, p + 1)

\* responsePattern.FindString(match): the first label, "" when there is none
FindString(match) ==
  LET all == FindAllResponse(match, 1) IN IF Len(all) > 0 THEN all[1] ELSE ""

\* the loop that keeps the label of every numbered match
RECURSIVE ExtractLabels(_)
ExtractLabels(matches) ==
  IF matches = << >> THEN << >>
  ELSE LET resp == FindString(Head(matches))
       IN  (IF resp # "" THEN << resp >> ELSE << >>) \o ExtractLabels(Tail(matches))

\* the last three lines of the function: every label of the whole text
WholeTextTwoSteps(rankingText) ==
  LET numberedMatches == FindAllNumbered(rankingText, 1)
  IN  IF Len(numberedMatches) > 0 THEN ExtractLabels(numberedMatches)
      ELSE FindAllResponse(rankingText, 1)
WholeTextFallback(rankingText) == FindAllResponse(rankingText, 1)

ParseRankingLabelScanOnly(rankingText) ==
  IF Contains(rankingText, Marker)
  THEN LET parts == Split(rankingText, Marker)
       IN  IF Len(parts) >= 2
           THEN LET matches == FindAllResponse(parts[2], 1)
                IN  IF Len(matches) > 0 THEN matches
                    ELSE WholeTextFallback(rankingText)
           ELSE WholeTextFallback(rankingText)
  ELSE WholeTextFallback(rankingText)
ParseRankingFromText(rankingText) ==
  IF Contains(rankingText, Marker)
  THEN LET parts == Split(rankingText, Marker)
       IN  IF Len(parts) >= 2
           THEN LET rankingSection  == parts[2]
                    numberedMatches == FindAllNumbered(rankingSection, 1)
                    matches         == FindAllResponse(rankingSection, 1)
                IN  IF Len(numberedMatches) > 0 THEN ExtractLabels(numberedMatches)
                    ELSE IF Len(matches) > 0 THEN matches
                    ELSE WholeTextFallback(rankingText)
           ELSE WholeTextFallback(rankingText)
  ELSE WholeTextFallback(rankingText)

----------------------------------------------------------------------------
(* CalculateAggregateRankings (council.go)                                 *)

\* the positions one parsed ranking appends for model
RECURSIVE PositionsInZeroBased(_, _, _, _)
PositionsInZeroBased(parsed, labels, model, position) ==
  IF position > Len(parsed) THEN << >>
  ELSE (IF parsed[position] \in DOMAIN labels
           /\ labels[parsed[position]] = model
        THEN << position - 1 >> ELSE << >>)
       \o PositionsInZeroBased(parsed, labels, model, position + 1)
RECURSIVE PositionsIn(_, _, _, _)
PositionsIn(parsed, labels, model, position) ==
  IF position > Len(parsed) THEN << >>
  ELSE (IF parsed[position] \in DOMAIN labels
           /\ labels[parsed[position]] = model
        THEN << position >> ELSE << >>)
       \o PositionsIn(parsed, labels, model, position + 1)

\* modelPositions[model] after the loop over stage2Results
RECURSIVE ModelPositionsOncePerLabel(_, _, _)
ModelPositionsOncePerLabel(rankings, labels, model) ==
  IF rankings = << >> THEN << >>
  ELSE LET parsed == Head(rankings).ParsedRanking
           first(p) == \A q \in 1..(p - 1) : parsed[q] # parsed[p]
       IN  SelectSeq(PositionsIn(parsed, labels, model, 1), first)
           \o ModelPositionsOncePerLabel(Tail(rankings), labels, model)
RECURSIVE ModelPositions(_, _, _)
ModelPositions(rankings, labels, model) ==
  IF rankings = << >> THEN << >>
  ELSE PositionsIn(Head(rankings).ParsedRanking, labels, model, 1)
       \o ModelPositions(Tail(rankings), labels, model)

RECURSIVE SumSeq(_)
SumSeq(s) == IF s = << >> THEN 0 ELSE Head(s) + SumSeq(Tail(s))

\* the keys of modelPositions: a key is created by the first append
RankedModels(rankings, labels) ==
  { labels[l] : l \in
      { l \in DOMAIN labels :
          \E r \in 1..Len(rankings) :
            \E p \in 1..Len(rankings[r].ParsedRanking) :
              rankings[r].ParsedRanking[p] = l } }

\* a mutant of AggregateEntry: the first position collected stands for all
AggregateEntryFirstPosition(rankings, labels, model) ==
  LET positions == ModelPositions(rankings, labels, model)
  IN  [ Model         |-> model,
        AverageRank   |-> << positions[1], 1 >>,
        RankingsCount |-> Len(positions) ]

\* AverageRank is the quotient float64(sum)/float64(len), kept as the pair
\* <<sum, len>>
AggregateEntry(rankings, labels, model) ==
  LET positions == ModelPositions(rankings, labels, model)
  IN  [ Model         |-> model,
        AverageRank   |-> << SumSeq(positions), Len(positions) >>,
        RankingsCount |-> Len(positions) ]

\* a[i].AverageRank < a[j].AverageRank
RankGreater(a, b) ==
  a.AverageRank[1] * b.AverageRank[2] > b.AverageRank[1] * a.AverageRank[2]
RankLess(a, b) ==
  a.AverageRank[1] * b.AverageRank[2] < b.AverageRank[1] * a.AverageRank[2]

\* all enumerations of a finite set
Orderings(S) ==
  { f \in [1..Cardinality(S) -> S] :
      \A i, j \in 1..Cardinality(S) : i # j => f[i] # f[j] }

\* what sort.Slice may leave: an order in which no later entry is less than
\* an earlier one (the sort is not stable and the map is ranged in any order)
SortSlice(entries) ==
  { s \in Orderings(entries) :
      \A i, j \in 1..Len(s) : i < j => ~RankLess(s[j], s[i]) }

\* The set of slices CalculateAggregateRankings may return.
CalculateAggregateRankingsWithUnranked(rankings, labels) ==
  SortSlice({ IF Len(ModelPositions(rankings, labels, m)) > 0
              THEN AggregateEntry(rankings, labels, m)
              ELSE [ Model         |-> m,
                     AverageRank   |-> << Cardinality(DOMAIN labels) + 1, 1 >>,
                     RankingsCount |-> 0 ] :
              m \in { labels[l] : l \in DOMAIN labels } })
CalculateAggregateRankings(rankings, labels) ==
  SortSlice({ AggregateEntry(rankings, labels, m) :
                m \in { m \in RankedModels(rankings, labels) :
                          Len(ModelPositions(rankings, labels, m)) > 0 } })

----------------------------------------------------------------------------
(* QueryModel and QueryModelsParallel (openrouter.go)                      *)

\* What one QueryModel call may return.  A call whose context is done fails;
\* otherwise the server answers with one of texts or the call fails.
QueryModel(ctxDone, texts) ==
  IF ctxDone
  THEN { [response |-> Nil, err |-> "context canceled"] }
  ELSE { [response |-> Nil, err |-> "request failed"] }
       \cup { [response |-> << [Content |-> t] >>, err |-> NoError] : t \in texts }

\* the model a goroutine queries and files its result under (the captured
\* loop variable)
TaskModelShared(models, i) == models[Len(models)]
TaskModel(models, i) == models[i]

\* what the goroutine returns to the errgroup
TaskErrorPropagated(err) == err
TaskError(err) == NoError

\* g.Wait() returns once every goroutine of the group has returned
WaitReturnsAtOnce(s) == TRUE
WaitReturns(s) == \A i \in DOMAIN task[s] : task[s][i].pc = "done"

StagePc(s) == IF s = 1 THEN "stage1" ELSE "stage2"

\* the context of call s: derived by errgroup.WithContext from the caller's
CtxDone(s) == cancelled \/ gerr[s] # NoError \/ qmp[s] # Nil

\* the next model of the launch loop, Len+1 after the loop
NextGo(s) ==
  IF \E i \in DOMAIN task[s] : task[s][i].pc = "idle"
  THEN CHOOSE i \in DOMAIN task[s] :
         task[s][i].pc = "idle" /\ \A j \in 1..(i - 1) : task[s][j].pc # "idle"
  ELSE Len(CouncilModels) + 1

StageTexts(s) == IF s = 1 THEN AnswerTexts ELSE RankingTexts

MapPut(m, k, v) == [ x \in DOMAIN m \cup {k} |-> IF x = k THEN v ELSE m[x] ]

\* the two writes of the goroutine: results[model] = nil after a failed
\* query, results[model] = response after a successful one
StoreSuccessOnly(m, model, response, err) ==
  IF err # NoError THEN m ELSE MapPut(m, model, response)
Store(m, model, response, err) ==
  IF err # NoError THEN MapPut(m, model, Nil) ELSE MapPut(m, model, response)

\* g.Go(func() error {...}) for models[i]: the goroutine starts in QueryModel
Go(s, i) ==
  /\ pc = StagePc(s)
  /\ i = NextGo(s)
  /\ i <= Len(CouncilModels)
  /\ task' = [task EXCEPT ![s][i].pc = "QueryModel"]
  /\ UNCHANGED << parserVars, serverVars >>
  /\ UNCHANGED << CouncilModels, ChairmanModel, userQuery, cancelled, pc, results,
                  mu, gerr, qmp, messages, chairman, stage1Results, stage2Results,
                  labelToModel, aggregateRankings, stage3Result, ret >>

\* QueryModel returns in goroutine i
QueryModelReturnOrRetry(s, i) ==
  /\ task[s][i].pc = "QueryModel"
  /\ \E out \in QueryModel(CtxDone(s), StageTexts(s)) :
       task' = [task EXCEPT ![s][i] =
                  [pc |-> IF out.err = NoError THEN "Lock" ELSE "QueryModel",
                   response |-> out.response, err |-> out.err]]
  /\ UNCHANGED << parserVars, serverVars >>
  /\ UNCHANGED << CouncilModels, ChairmanModel, userQuery, cancelled, pc, results,
                  mu, gerr, qmp, messages, chairman, stage1Results, stage2Results,
                  labelToModel, aggregateRankings, stage3Result, ret >>
QueryModelReturn(s, i) ==
  /\ task[s][i].pc = "QueryModel"
  /\ \E out \in QueryModel(CtxDone(s), StageTexts(s)) :
       task' = [task EXCEPT ![s][i] =
                  [pc |-> "Lock", response |-> out.response, err |-> out.err]]
  /\ UNCHANGED << parserVars, serverVars >>
  /\ UNCHANGED << CouncilModels, ChairmanModel, userQuery, cancelled, pc, results,
                  mu, gerr, qmp, messages, chairman, stage1Results, stage2Results,
                  labelToModel, aggregateRankings, stage3Result, ret >>

\* mu.Lock(); results[model] = nil or response
MuLockNoMutex(s, i) ==
  /\ task[s][i].pc = "Lock"
  /\ mu' = [mu EXCEPT ![s] = i]
  /\ results' = [results EXCEPT ![s] =
                   Store(results[s], TaskModel(CouncilModels, i),
                         task[s][i].response, task[s][i].err)]
  /\ task' = [task EXCEPT ![s][i].pc = "Unlock"]
  /\ UNCHANGED << parserVars, serverVars >>
  /\ UNCHANGED << CouncilModels, ChairmanModel, userQuery, cancelled, pc, gerr,
                  qmp, messages, chairman, stage1Results, stage2Results,
                  labelToModel, aggregateRankings, stage3Result, ret >>
MuLock(s, i) ==
  /\ task[s][i].pc = "Lock"
  /\ mu[s] = 0
  /\ mu' = [mu EXCEPT ![s] = i]
  /\ results' = [results EXCEPT ![s] =
                   Store(results[s], TaskModel(CouncilModels, i),
                         task[s][i].response, task[s][i].err)]
  /\ task' = [task EXCEPT ![s][i].pc = "Unlock"]
  /\ UNCHANGED << parserVars, serverVars >>
  /\ UNCHANGED << CouncilModels, ChairmanModel, userQuery, cancelled, pc, gerr,
                  qmp, messages, chairman, stage1Results, stage2Results,
                  labelToModel, aggregateRankings, stage3Result, ret >>

\* mu.Unlock(); return nil
MuUnlock(s, i) ==
  /\ task[s][i].pc = "Unlock"
  /\ mu[s] = i
  /\ mu' = [mu EXCEPT ![s] = 0]
  /\ task' = [task EXCEPT ![s][i].pc = "done"]
  /\ gerr' = [gerr EXCEPT ![s] =
                IF gerr[s] = NoError THEN TaskError(task[s][i].err) ELSE gerr[s]]
  /\ UNCHANGED << parserVars, serverVars >>
  /\ UNCHANGED << CouncilModels, ChairmanModel, userQuery, cancelled, pc, results,
                  qmp, messages, chairman, stage1Results, stage2Results,
                  labelToModel, aggregateRankings, stage3Result, ret >>

\* what QueryModelsParallel returns after g.Wait()
QueryModelsParallelErrIfAllFail(s) ==
  IF gerr[s] # NoError
  THEN [responses |-> << >>, err |-> gerr[s]]
  ELSE IF results[s] # << >> /\ \A m \in DOMAIN results[s] : results[s][m] = Nil
  THEN [responses |-> << >>, err |-> "all models failed"]
  ELSE [responses |-> results[s], err |-> NoError]
QueryModelsParallel(s) ==
  IF gerr[s] # NoError
  THEN [responses |-> << >>, err |-> gerr[s]]
  ELSE [responses |-> results[s], err |-> NoError]

----------------------------------------------------------------------------
(* The stage functions (council.go)                                        *)

\* the loop over the map returned to Stage1CollectResponses, ranged in order
RECURSIVE Stage1FormatAll(_, _)
Stage1FormatAll(order, responses) ==
  IF order = << >> THEN << >>
  ELSE << [ Model    |-> Head(order),
            Response |-> IF responses[Head(order)] # Nil
                         THEN responses[Head(order)][1].Content ELSE << >> ] >>
       \o Stage1FormatAll(Tail(order), responses)

RECURSIVE Stage1Format(_, _)
Stage1Format(order, responses) ==
  IF order = << >> THEN << >>
  ELSE (IF responses[Head(order)] # Nil
        THEN << [ Model    |-> Head(order),
                  Response |-> responses[Head(order)][1].Content ] >>
        ELSE << >>)
       \o Stage1Format(Tail(order), responses)

\* Stage1CollectResponses, given what QueryModelsParallel returned and the
\* order in which the map is ranged
Stage1CollectResponses(qr, order) ==
  IF qr.err # NoError
  THEN [results |-> << >>, err |-> "failed to query models"]
  ELSE [results |-> Stage1Format(order, qr.responses), err |-> NoError]

\* string(rune('A' + i)) and the map key built from it
LabelFromB(i) == Runes[i + 2]
Label(i) == Runes[i + 1]
LabelKey(i) == "Response " \o Label(i)

\* labelToModel after the loop over stage1Results (a later result overwrites
\* an earlier one under the same key)
LabelToModel(s1) ==
  [ k \in { LabelKey(i - 1) : i \in 1..Len(s1) } |->
      LET last == CHOOSE i \in 1..Len(s1) :
                    /\ LabelKey(i - 1) = k
                    /\ \A j \in (i + 1)..Len(s1) : LabelKey(j - 1) # k
      IN  s1[last].Model ]

\* rankingPrompt: the fixed template filled with the question and, per
\* result, "Response <label>:" and the response text
RankingPromptNamingModels(query, s1) ==
  [ Question  |-> query,
    Responses |-> [ i \in 1..Len(s1) |->
                      [Label |-> LabelKey(i - 1), Model |-> s1[i].Model,
                       Text |-> s1[i].Response] ] ]
RankingPrompt(query, s1) ==
  [ Question  |-> query,
    Responses |-> [ i \in 1..Len(s1) |->
                      [Label |-> LabelKey(i - 1), Text |-> s1[i].Response] ] ]

\* the loop over the map returned to Stage2CollectRankings
RECURSIVE Stage2FormatParsedOnly(_, _)
Stage2FormatParsedOnly(order, responses) ==
  IF order = << >> THEN << >>
  ELSE (IF responses[Head(order)] # Nil
           /\ ParseRankingFromText(responses[Head(order)][1].Content) # << >>
        THEN LET fullText == responses[Head(order)][1].Content
             IN  << [ Model         |-> Head(order),
                      Ranking       |-> fullText,
                      ParsedRanking |-> ParseRankingFromText(fullText) ] >>
        ELSE << >>)
       \o Stage2FormatParsedOnly(Tail(order), responses)
RECURSIVE Stage2Format(_, _)
Stage2Format(order, responses) ==
  IF order = << >> THEN << >>
  ELSE (IF responses[Head(order)] # Nil
        THEN LET fullText == responses[Head(order)][1].Content
             IN  << [ Model         |-> Head(order),
                      Ranking       |-> fullText,
                      ParsedRanking |-> ParseRankingFromText(fullText) ] >>
        ELSE << >>)
       \o Stage2Format(Tail(order), responses)

\* Stage2CollectRankings after its QueryModelsParallel call returned
Stage2CollectRankingsStrict(qr, order, labels) ==
  IF qr.err # NoError \/ Stage2Format(order, qr.responses) = << >>
  THEN [results |-> << >>, labelToModel |-> << >>,
        err |-> "failed to query models for rankings"]
  ELSE [results |-> Stage2Format(order, qr.responses), labelToModel |-> labels,
        err |-> NoError]
Stage2CollectRankings(qr, order, labels) ==
  IF qr.err # NoError
  THEN [results |-> << >>, labelToModel |-> << >>,
        err |-> "failed to query models for rankings"]
  ELSE [results |-> Stage2Format(order, qr.responses), labelToModel |-> labels,
        err |-> NoError]

\* chairmanPrompt: the template filled with the question, every Stage-1
\* result and every Stage-2 ranking text, each under its model identifier
ChairmanPromptReversed(query, s1, s2) ==
  [ Question |-> query,
    Stage1   |-> [ i \in 1..Len(s1) |->
                     [Model    |-> s1[Len(s1) + 1 - i].Model,
                      Response |-> s1[Len(s1) + 1 - i].Response] ],
    Stage2   |-> [ i \in 1..Len(s2) |-> [Model |-> s2[i].Model, Ranking |-> s2[i].Ranking] ] ]
ChairmanPrompt(query, s1, s2) ==
  [ Question |-> query,
    Stage1   |-> [ i \in 1..Len(s1) |-> [Model |-> s1[i].Model, Response |-> s1[i].Response] ],
    Stage2   |-> [ i \in 1..Len(s2) |-> [Model |-> s2[i].Model, Ranking |-> s2[i].Ranking] ] ]

\* Stage3SynthesizeFinal after the chairman's QueryModel call returned out
Stage3SynthesizeFinalPlaceholder(out) ==
  IF out.err # NoError
  THEN [result |-> << [Model |-> ChairmanModel,
                       Response |-> << "Error: Unable to generate final synthesis." >>] >>,
        err |-> NoError]
  ELSE [result |-> << [Model |-> ChairmanModel, Response |-> out.response[1].Content] >>,
        err |-> NoError]
Stage3SynthesizeFinalAsTopModel(out) ==
  IF out.err # NoError
  THEN [result |-> Nil, err |-> "chairman model query failed"]
  ELSE [result |-> << [Model |-> stage1Results[1].Model,
                       Response |-> out.response[1].Content] >>,
        err |-> NoError]
Stage3SynthesizeFinal(out) ==
  IF out.err # NoError
  THEN [result |-> Nil, err |-> "chairman model query failed"]
  ELSE [result |-> << [Model |-> ChairmanModel, Response |-> out.response[1].Content] >>,
        err |-> NoError]

----------------------------------------------------------------------------
(* RunFullCouncil (council.go)                                             *)

ZeroStage3 == [Model |-> "", Response |-> << >>]
ZeroMetadata == [LabelToModel |-> << >>, AggregateRankings |-> << >>]

\* return nil, nil, Stage3Response{}, Metadata{}, fmt.Errorf(...)
ErrorReturn(msg) ==
  [stage1 |-> << >>, stage2 |-> << >>, stage3 |-> ZeroStage3,
   metadata |-> ZeroMetadata, err |-> msg]

\* if len(stage1Results) == 0
NoModelResponded(s1) == Len(s1) = 0

\* the return for an empty Stage-1 list
AllFailedReturnPlaceholder ==
  [stage1 |-> << >>, stage2 |-> << >>,
   stage3 |-> [Model |-> "error", Response |-> << "All models failed to respond" >>],
   metadata |-> ZeroMetadata, err |-> NoError]
AllFailedReturn == ErrorReturn("all council models failed to respond")

\* the return after Stage3SynthesizeFinal failed
Stage3FailedReturnPartial(s1, s2) ==
  [stage1 |-> s1, stage2 |-> s2, stage3 |-> ZeroStage3,
   metadata |-> ZeroMetadata, err |-> "stage 3 failed"]
Stage3FailedReturn(s1, s2) == ErrorReturn("stage 3 failed")

\* return stage1Results, stage2Results, *stage3Result, metadata, nil
SuccessReturn(s1, s2, s3, labels, aggregate) ==
  [stage1 |-> s1, stage2 |-> s2, stage3 |-> s3,
   metadata |-> [LabelToModel |-> labels, AggregateRankings |-> aggregate],
   err |-> NoError]

\* where RunFullCouncil is after a return statement
ReturnedOrRetry(r) == IF r.err = NoError THEN "done" ELSE "stage1"
Returned(r) == IF r.err = NoError THEN "done" ELSE "failed"

NoRet == ErrorReturn("")
IdleTask == [pc |-> "idle", response |-> Nil, err |-> NoError]

\* no HTTP request is being handled
NoRequest ==
  /\ file = Nil
  /\ hpc = "none"
  /\ hconv = Nil
  /\ tpc = "none"
  /\ tconv = Nil
  /\ title = Nil
  /\ titleChan = Nil
  /\ events = << >>
  /\ status = 0
  /\ got = Nil

Init ==
  /\ CouncilModels \in CouncilChoices
  /\ ChairmanModel \in ChairmanChoices
  /\ userQuery \in Queries
  /\ cancelled = FALSE
  /\ pc = "stage1"
  /\ task = [s \in 1..2 |-> [i \in 1..Len(CouncilModels) |-> IdleTask]]
  /\ results = [s \in 1..2 |-> << >>]
  /\ mu = [s \in 1..2 |-> 0]
  /\ gerr = [s \in 1..2 |-> NoError]
  /\ qmp = [s \in 1..2 |-> Nil]
  /\ messages = [s \in 1..3 |->
                   IF s = 1 THEN << [Role |-> "user", Content |-> userQuery] >> ELSE << >>]
  /\ chairman = IdleTask
  /\ stage1Results = << >>
  /\ stage2Results = << >>
  /\ labelToModel = << >>
  /\ aggregateRankings = << >>
  /\ stage3Result = Nil
  /\ ret = NoRet
  /\ parserText = << >>
  /\ parserResult = Nil
  /\ NoRequest

\* the caller's context is cancelled or its deadline passes
Cancel ==
  /\ ~cancelled
  /\ pc \in {"stage1", "stage2", "stage3"}
  /\ cancelled' = TRUE
  /\ UNCHANGED << parserVars, serverVars >>
  /\ UNCHANGED << CouncilModels, ChairmanModel, userQuery, pc, task, results, mu,
                  gerr, qmp, messages, chairman, stage1Results, stage2Results,
                  labelToModel, aggregateRankings, stage3Result, ret >>

\* g.Wait() of Stage 1 returns; RunFullCouncil runs on to the launch loop of
\* Stage 2, or returns
Stage1Join ==
  /\ pc = "stage1"
  /\ NextGo(1) > Len(CouncilModels)
  /\ WaitReturns(1)
  /\ \E order \in Orderings(DOMAIN QueryModelsParallel(1).responses) :
       LET qr == QueryModelsParallel(1)
           s1 == Stage1CollectResponses(qr, order)
           r  == IF s1.err # NoError THEN ErrorReturn("stage 1 failed")
                 ELSE IF NoModelResponded(s1.results) THEN AllFailedReturn
                 ELSE NoRet
           go == s1.err = NoError /\ ~NoModelResponded(s1.results)
       IN  /\ qmp' = [qmp EXCEPT ![1] = << qr >>]
           /\ stage1Results' = s1.results
           /\ ret' = r
           /\ pc' = IF go THEN "stage2" ELSE Returned(r)
           /\ labelToModel' = IF go THEN LabelToModel(s1.results) ELSE labelToModel
           /\ messages' = IF go
                          THEN [messages EXCEPT ![2] =
                                  << [Role |-> "user",
                                      Content |-> RankingPrompt(userQuery, s1.results)] >>]
                          ELSE messages
  /\ UNCHANGED << parserVars, serverVars >>
  /\ UNCHANGED << CouncilModels, ChairmanModel, userQuery, cancelled, task, results,
                  mu, gerr, chairman, stage2Results, aggregateRankings, stage3Result >>

\* g.Wait() of Stage 2 returns; RunFullCouncil aggregates and calls the
\* chairman, or returns
Stage2Join ==
  /\ pc = "stage2"
  /\ NextGo(2) > Len(CouncilModels)
  /\ WaitReturns(2)
  /\ \E order \in Orderings(DOMAIN QueryModelsParallel(2).responses) :
       LET qr == QueryModelsParallel(2)
           s2 == Stage2CollectRankings(qr, order, labelToModel)
       IN  /\ qmp' = [qmp EXCEPT ![2] = << qr >>]
           /\ stage2Results' = s2.results
           /\ IF s2.err # NoError
              THEN /\ ret' = ErrorReturn("stage 2 failed")
                   /\ pc' = Returned(ret')
                   /\ UNCHANGED << aggregateRankings, messages, chairman >>
              ELSE /\ aggregateRankings' \in CalculateAggregateRankings(s2.results, s2.labelToModel)
                   /\ messages' = [messages EXCEPT ![3] =
                                     << [Role |-> "user",
                                         Content |-> ChairmanPrompt(userQuery, stage1Results,
                                                                    s2.results)] >>]
                   /\ chairman' = [chairman EXCEPT !.pc = "QueryModel"]
                   /\ pc' = "stage3"
                   /\ ret' = ret
  /\ UNCHANGED << parserVars, serverVars >>
  /\ UNCHANGED << CouncilModels, ChairmanModel, userQuery, cancelled, task, results,
                  mu, gerr, stage1Results, labelToModel, stage3Result >>

\* the chairman's QueryModel call returns; Stage3SynthesizeFinal and
\* RunFullCouncil return
ChairmanReturn ==
  /\ pc = "stage3"
  /\ chairman.pc = "QueryModel"
  /\ \E out \in QueryModel(cancelled, SynthesisTexts) :
       LET s3 == Stage3SynthesizeFinal(out)
           r  == IF s3.err # NoError
                 THEN Stage3FailedReturn(stage1Results, stage2Results)
                 ELSE SuccessReturn(stage1Results, stage2Results, s3.result[1],
                                    labelToModel, aggregateRankings)
       IN  /\ chairman' = [pc |-> "done", response |-> out.response, err |-> out.err]
           /\ stage3Result' = s3.result
           /\ ret' = r
           /\ pc' = Returned(r)
  /\ UNCHANGED << parserVars, serverVars >>
  /\ UNCHANGED << CouncilModels, ChairmanModel, userQuery, cancelled, task, results,
                  mu, gerr, qmp, messages, stage1Results, stage2Results, labelToModel,
                  aggregateRankings >>

Next ==
  \/ \E s \in 1..2 : \E i \in 1..Len(CouncilModels) : Go(s, i)
  \/ \E s \in 1..2 : \E i \in 1..Len(CouncilModels) : QueryModelReturn(s, i)
  \/ \E s \in 1..2 : \E i \in 1..Len(CouncilModels) : MuLock(s, i)
  \/ \E s \in 1..2 : \E i \in 1..Len(CouncilModels) : MuUnlock(s, i)
  \/ Stage1Join
  \/ Stage2Join
  \/ ChairmanReturn
  \/ Cancel

Spec == Init /\ [][Next]_vars

----------------------------------------------------------------------------
(* Properties of the parallel executor and of the orchestrator             *)

N == Len(CouncilModels)

\* the QueryModel call of goroutine i of call s returned / returned a response
Completed(s, i) == task[s][i].pc \in {"Lock", "Unlock", "done"}
Succeeded(s, i) == Completed(s, i) /\ task[s][i].err = NoError
Failed(s, i)    == Completed(s, i) /\ task[s][i].err # NoError

AllDone(s) == \A i \in 1..N : task[s][i].pc = "done"
SucceededModels(s) == { CouncilModels[i] : i \in { j \in 1..N : Succeeded(s, j) } }

\* C1: once Stage 1 has returned, stage1Results holds exactly one entry per
\* council model whose Stage-1 invocation succeeded, carrying the text that
\* invocation returned, and no entry for a model whose invocation failed.
C1_Stage1ExactlySuccessful ==
  qmp[1] # Nil =>
    /\ \A i \in 1..N :
         Succeeded(1, i) =>
           /\ Cardinality({ k \in 1..Len(stage1Results) :
                              stage1Results[k].Model = CouncilModels[i] }) = 1
           /\ \E k \in 1..Len(stage1Results) :
                stage1Results[k] = [ Model    |-> CouncilModels[i],
                                     Response |-> task[1][i].response[1].Content ]
    /\ \A i \in 1..N :
         ~Succeeded(1, i) =>
           \A k \in 1..Len(stage1Results) : stage1Results[k].Model # CouncilModels[i]
    /\ \A k \in 1..Len(stage1Results) :
         \E i \in 1..N : stage1Results[k].Model = CouncilModels[i]

C1_Witness ==
  /\ qmp[1] # Nil
  /\ N = 2
  /\ Failed(1, 1) /\ Succeeded(1, 2)
  /\ Len(stage1Results) = 1

\* C2: when every council model failed in Stage 1, RunFullCouncil has
\* returned a non-nil error with no Stage-1 list, no Stage-2 list, the zero
\* Stage-3 result and the zero metadata.
C2_AllFailStage1IsFatal ==
  (qmp[1] # Nil /\ \A i \in 1..N : ~Succeeded(1, i)) =>
    /\ pc = "failed"
    /\ ret.err \notin {NoError, ""}
    /\ ret.stage1 = << >>
    /\ ret.stage2 = << >>
    /\ ret.stage3 = ZeroStage3
    /\ ret.metadata = ZeroMetadata

C2_Witness ==
  /\ pc = "failed"
  /\ N = 2
  /\ ~cancelled
  /\ \A i \in 1..N : Failed(1, i)
  /\ ret.err = "all council models failed to respond"

\* C3: Stage 2 is never fatal.  Whatever the Stage-2 invocations returned,
\* the run goes on to the chairman's invocation once Stage 2 has returned,
\* the only failed runs are those with an empty Stage-1 list or a failed
\* chairman, and a run in which no ranker succeeded and the chairman did
\* returns success with no Stage-2 record and no aggregate ranking.
C3_Stage2NeverFatal ==
  /\ qmp[2] # Nil => chairman.pc # "idle"
  /\ pc = "failed" =>
       stage1Results = << >> \/ (chairman.pc = "done" /\ chairman.err # NoError)
  /\ ( /\ qmp[2] # Nil
       /\ \A i \in 1..N : ~Succeeded(2, i)
       /\ chairman.pc = "done" /\ chairman.err = NoError ) =>
       /\ pc = "done"
       /\ ret.err = NoError
       /\ ret.stage2 = << >>
       /\ ret.metadata.AggregateRankings = << >>

C3_Witness ==
  /\ pc = "done"
  /\ N = 2
  /\ \A i \in 1..N : Failed(2, i)
  /\ ret.stage1 # << >>
  /\ ret.stage2 = << >>

\* C4: when the chairman's invocation failed, Stage3SynthesizeFinal returned
\* no result and RunFullCouncil returned an error with no Stage-1, Stage-2
\* or Stage-3 result, whatever Stage 1 and Stage 2 had produced.
C4_Stage3FailureIsFatal ==
  (chairman.pc = "done" /\ chairman.err # NoError) =>
    /\ stage3Result = Nil
    /\ pc = "failed"
    /\ ret.err \notin {NoError, ""}
    /\ ret.stage1 = << >>
    /\ ret.stage2 = << >>
    /\ ret.stage3 = ZeroStage3

C4_Witness ==
  /\ chairman.pc = "done"
  /\ chairman.err = "request failed"
  /\ Len(stage1Results) = 2
  /\ Len(stage2Results) = 2
  /\ aggregateRankings # << >>

\* C5: every return of RunFullCouncil is all-or-nothing: a nil error comes
\* with a non-empty Stage-1 list and the chairman's own text under the
\* chairman's identifier, a non-nil error with empty results and metadata.
C5_AllOrNothing ==
  pc \in {"done", "failed"} =>
    \/ /\ ret.err = NoError
       /\ ret.stage1 # << >>
       /\ chairman.pc = "done" /\ chairman.err = NoError
       /\ ret.stage3 = [Model |-> ChairmanModel, Response |-> chairman.response[1].Content]
    \/ /\ ret.err \notin {NoError, ""}
       /\ ret.stage1 = << >>
       /\ ret.stage2 = << >>
       /\ ret.stage3 = ZeroStage3
       /\ ret.metadata = ZeroMetadata

C5_Witness ==
  /\ pc = "done"
  /\ N = 2
  /\ Len(ret.stage1) = 1
  /\ Len(ret.stage2) = 1
  /\ ret.stage3.Model = ChairmanModel

\* C6 as stated: when some invocation succeeded, QueryModelsParallel
\* returns no error and a mapping holding exactly the successful models;
\* every failed model is absent from it.
C6_FailedModelsAbsent ==
  \A s \in 1..2 :
    (qmp[s] # Nil /\ \E i \in 1..N : Succeeded(s, i)) =>
      /\ qmp[s][1].err = NoError
      /\ DOMAIN qmp[s][1].responses = SucceededModels(s)
      /\ \A i \in 1..N : Succeeded(s, i) =>
           qmp[s][1].responses[CouncilModels[i]] = task[s][i].response

\* C6 amended: when some invocation succeeded, QueryModelsParallel returns
\* no error and a mapping with one entry per model of the list: a successful
\* model maps to its response and a failed model maps to nil.
C6_FailedModelsMapToNil ==
  \A s \in 1..2 :
    (qmp[s] # Nil /\ \E i \in 1..N : Succeeded(s, i)) =>
      /\ qmp[s][1].err = NoError
      /\ DOMAIN qmp[s][1].responses = { CouncilModels[i] : i \in 1..N }
      /\ \A i \in 1..N :
           qmp[s][1].responses[CouncilModels[i]] =
             IF Succeeded(s, i) THEN task[s][i].response ELSE Nil

C6_Witness ==
  /\ qmp[1] # Nil
  /\ N = 2
  /\ Succeeded(1, 1) /\ Failed(1, 2)
  /\ ~cancelled
  /\ qmp[1][1].responses[CouncilModels[2]] = Nil

\* C7: when the list is not empty and every invocation succeeded, the
\* mapping QueryModelsParallel returns has exactly one entry per model,
\* holding the response of that model's own invocation.
C7_AllSucceedOneEntryEach ==
  \A s \in 1..2 :
    (qmp[s] # Nil /\ N >= 1 /\ \A i \in 1..N : Succeeded(s, i)) =>
      /\ qmp[s][1].err = NoError
      /\ DOMAIN qmp[s][1].responses = { CouncilModels[i] : i \in 1..N }
      /\ Cardinality(DOMAIN qmp[s][1].responses) = N
      /\ \A i \in 1..N :
           /\ qmp[s][1].responses[CouncilModels[i]] # Nil
           /\ qmp[s][1].responses[CouncilModels[i]] = task[s][i].response

C7_Witness ==
  /\ qmp[2] # Nil
  /\ N = 2
  /\ \A i \in 1..N : Succeeded(2, i)
  /\ task[2][1].response # task[2][2].response

C9_FailureDoesNotAbortSiblings ==
  \A s \in 1..2 :
    /\ \A i \in 1..N : task[s][i].err = "context canceled" => cancelled
    /\ gerr[s] = NoError
    /\ qmp[s] # Nil => AllDone(s)

C9_Witness ==
  /\ N = 2
  /\ ~cancelled
  /\ task[1][1].pc = "done" /\ Failed(1, 1)
  /\ task[1][2].pc = "QueryModel"

\* C10: the stages are separated by a join barrier: a QueryModelsParallel
\* call has returned only if all its goroutines have ended, no Stage-2
\* invocation is started while a Stage-1 goroutine has not ended, and the
\* chairman is not invoked while a Stage-1 or Stage-2 goroutine has not ended.
C10_JoinBarrier ==
  /\ \A s \in 1..2 : qmp[s] # Nil => AllDone(s)
  /\ (\E i \in 1..N : task[2][i].pc # "idle") => AllDone(1)
  /\ chairman.pc # "idle" => (AllDone(1) /\ AllDone(2))
  /\ \A i, j \in 1..N : ~(task[1][i].pc = "QueryModel" /\ task[2][j].pc = "QueryModel")

C10_Witness ==
  /\ chairman.pc = "QueryModel"
  /\ N = 2
  /\ \E i \in 1..N : Succeeded(2, i)
  /\ \E i \in 1..N : Failed(1, i)

----------------------------------------------------------------------------
(* Properties of the run as a whole                                        *)

StageIndex(p) ==
  CASE p = "stage1" -> 1 [] p = "stage2" -> 2 [] p = "stage3" -> 3 [] OTHER -> 4

\* goroutine i of call s is started in this step
Issued(s, i) == task[s][i].pc = "idle" /\ task'[s][i].pc # "idle"
ChairmanIssued == chairman.pc = "idle" /\ chairman'.pc # "idle"

\* C11: a run only moves forward through Stage 1, Stage 2, Stage 3 and its
\* end: the stage never decreases, an invocation of a stage is issued only
\* while the run is in that stage, the prompt of a stage is written only on
\* entering that stage, and after the run is done or has failed nothing is
\* invoked and the position no longer changes.
C11_ForwardOnly ==
  [][ /\ StageIndex(pc') >= StageIndex(pc)
      /\ \A s \in 1..2 : \A i \in 1..N :
           Issued(s, i) => (pc = StagePc(s) /\ pc' = pc)
      /\ ChairmanIssued => (pc = "stage2" /\ pc' = "stage3")
      /\ \A s \in 1..3 :
           messages'[s] # messages[s] => (StageIndex(pc) < s /\ StageIndex(pc') = s)
      /\ pc \in {"done", "failed"} =>
           /\ pc' = pc
           /\ ~ChairmanIssued
           /\ \A s \in 1..2 : \A i \in 1..N : ~Issued(s, i)
    ]_vars

C11_Witness ==
  /\ pc = "failed"
  /\ N = 2
  /\ chairman.pc = "done"
  /\ \A s \in 1..2 : \E i \in 1..N : Succeeded(s, i)

\* C12: once the caller's context is cancelled, every invocation in flight
\* ends as a failure and the run does not enter the next stage: it stays in
\* its stage or ends.
C12_CancelStopsTheRun ==
  [][ cancelled =>
        /\ \A s \in 1..2 : \A i \in 1..N :
             (task[s][i].pc = "QueryModel" /\ task'[s][i].pc # "QueryModel")
               => task'[s][i].err # NoError
        /\ (chairman.pc = "QueryModel" /\ chairman'.pc # "QueryModel")
             => chairman'.err # NoError
        /\ StageIndex(pc') \in {StageIndex(pc), 4}
        /\ \A i \in 1..N : Issued(2, i) => pc = "stage2"
    ]_vars

\* C13: the ranking prompt is the template filled with the question, the
\* labels in order and the Stage-1 response texts in order, and nothing else:
\* it is the same for all Stage-1 lists with these texts in this order,
\* whatever their model identifiers.
C13_RankingPromptFromTextsOnly ==
  StageIndex(pc) >= 2 /\ stage1Results # << >> =>
    messages[2] =
      << [ Role    |-> "user",
           Content |-> [ Question  |-> userQuery,
                         Responses |-> [ i \in 1..Len(stage1Results) |->
                                           [ Label |-> "Response " \o Runes[i],
                                             Text  |-> stage1Results[i].Response ] ] ] ] >>

C13_Witness ==
  /\ pc = "stage2"
  /\ Len(stage1Results) = 2
  /\ stage1Results[1].Model = CouncilModels[2]
  /\ stage1Results[1].Response # stage1Results[2].Response
  /\ \E i \in 1..N : task[2][i].pc = "QueryModel"

\* C14: the i-th Stage-1 result gets the i-th letter, starting with
\* "Response A", and the label map is a bijection between these labels and
\* the models of the Stage-1 results.
C14_LabelsInListOrderBijective ==
  StageIndex(pc) >= 2 /\ stage1Results # << >> =>
    /\ DOMAIN labelToModel = { "Response " \o Runes[i] : i \in 1..Len(stage1Results) }
    /\ labelToModel["Response A"] = stage1Results[1].Model
    /\ Len(stage1Results) >= 2 => labelToModel["Response B"] = stage1Results[2].Model
    /\ Len(stage1Results) >= 3 => labelToModel["Response C"] = stage1Results[3].Model
    /\ Cardinality(DOMAIN labelToModel) = Len(stage1Results)
    /\ \A i \in 1..Len(stage1Results) :
         labelToModel["Response " \o Runes[i]] = stage1Results[i].Model
    /\ \A k1, k2 \in DOMAIN labelToModel :
         labelToModel[k1] = labelToModel[k2] => k1 = k2

C14_Witness ==
  /\ StageIndex(pc) >= 2
  /\ Len(stage1Results) = 2
  /\ stage1Results[1].Model = CouncilModels[2]
  /\ labelToModel["Response A"] = CouncilModels[2]
  /\ labelToModel["Response B"] = CouncilModels[1]

\* the one Stage-1 sequence is what the labels, the chairman's context and
\* the returned list are built from
Stage1OrderUsed ==
  /\ StageIndex(pc) >= 2 /\ stage1Results # << >> =>
       /\ Len(messages[2][1].Content.Responses) = Len(stage1Results)
       /\ \A i \in 1..Len(stage1Results) :
            LET r == messages[2][1].Content.Responses[i]
            IN  /\ r.Text = stage1Results[i].Response
                /\ labelToModel[r.Label] = stage1Results[i].Model
  /\ chairman.pc # "idle" => messages[3][1].Content.Stage1 = stage1Results
  /\ pc = "done" => ret.stage1 = stage1Results

\* C15: the order of the Stage-1 results is fixed when they are collected
\* and held for the run: the sequence never changes afterwards, and it is
\* the sequence the labels are assigned to, the sequence of the chairman's
\* context and the Stage-1 list returned.
C15_Stage1OrderHeld ==
  /\ []Stage1OrderUsed
  /\ [][StageIndex(pc) >= 2 => stage1Results' = stage1Results]_vars

C15_Witness ==
  /\ pc = "done"
  /\ Len(ret.stage1) = 2
  /\ ret.stage1[1].Model = CouncilModels[2]
  /\ ret.stage1[1].Response # ret.stage1[2].Response

----------------------------------------------------------------------------
(* ParseRankingFromText on its own: every text of up to MaxTextLen tokens  *)

ParseAlphabet == { Marker, "1", ".", " ", "Response A", "Response Z" }
\* the texts of n tokens
ParseTexts(n) == [1..n -> ParseAlphabet]

ParseInit ==
  /\ \E n \in 0..MaxTextLen :
       \E head \in ParseTexts(n \div 2), rest \in ParseTexts(n - (n \div 2)) :
         parserText = head \o rest
  /\ parserResult = Nil
  /\ CouncilModels = << >>
  /\ ChairmanModel = ModelPool[2]
  /\ userQuery = "What is Go?"
  /\ cancelled = FALSE
  /\ pc = "stage1"
  /\ task = [s \in 1..2 |-> << >>]
  /\ results = [s \in 1..2 |-> << >>]
  /\ mu = [s \in 1..2 |-> 0]
  /\ gerr = [s \in 1..2 |-> NoError]
  /\ qmp = [s \in 1..2 |-> Nil]
  /\ messages = [s \in 1..3 |->
                   IF s = 1 THEN << [Role |-> "user", Content |-> userQuery] >> ELSE << >>]
  /\ chairman = IdleTask
  /\ stage1Results = << >>
  /\ stage2Results = << >>
  /\ labelToModel = << >>
  /\ aggregateRankings = << >>
  /\ stage3Result = Nil
  /\ ret = NoRet
  /\ NoRequest

\* parsed := ParseRankingFromText(fullText)
ParseCall ==
  /\ parserResult = Nil
  /\ parserResult' = << ParseRankingFromText(parserText) >>
  /\ UNCHANGED << CouncilModels, ChairmanModel, userQuery, cancelled, pc, task,
                  results, mu, gerr, qmp, messages, chairman, stage1Results,
                  stage2Results, labelToModel, aggregateRankings, stage3Result,
                  ret, parserText, serverVars >>

ParseNext == ParseCall

ParseSpec == ParseInit /\ [][ParseNext]_vars

\* What the two patterns match, said by position rather than by scanning.
Least(S) == CHOOSE x \in S : \A y \in S : x <= y

MarkerPositions(t) == { k \in 1..Len(t) : t[k] = Marker }

\* the positions of parts[1]: after the first marker, up to the next marker
\* or the end of the text
SectionPositions(t) ==
  LET first == Least(MarkerPositions(t))
      later == { k \in MarkerPositions(t) : k > first }
      stop  == IF later = {} THEN Len(t) + 1 ELSE Least(later)
  IN  (first + 1)..(stop - 1)

\* Response [A-Z] inside the region P
LabelPositions(t, P) == { u \in P : t[u] \in ResponseLabels }

\* the labels of \d+\.\s*Response [A-Z] inside the region P: a label that
\* follows a digit, a period and nothing but whitespace
NumberedPositions(t, P) ==
  { u \in LabelPositions(t, P) :
      \E q \in P : /\ q < u
                   /\ t[q] = "."
                   /\ (q - 1) \in P
                   /\ t[q - 1] \in Digits
                   /\ \A w \in (q + 1)..(u - 1) : t[w] \in Whitespace }

\* the tokens at the positions P, in document order
TokensAt(t, P) ==
  [ i \in 1..Cardinality(P) |->
      t[CHOOSE u \in P : Cardinality({ q \in P : q < u }) = i - 1] ]

WholeText(t) == 1..Len(t)

\* the positions whose labels the function returns
AppliedPositions(t) ==
  IF MarkerPositions(t) # {} /\ NumberedPositions(t, SectionPositions(t)) # {}
  THEN NumberedPositions(t, SectionPositions(t))
  ELSE IF MarkerPositions(t) # {} /\ LabelPositions(t, SectionPositions(t)) # {}
  THEN LabelPositions(t, SectionPositions(t))
  ELSE LabelPositions(t, WholeText(t))

Parsed == parserResult # Nil
HasMarker == MarkerPositions(parserText) # {}

\* C16: when the text has the marker and the section after it (the text from
\* the first marker to the next marker or the end) has a numbered entry, the
\* result is exactly the labels of the section's numbered entries in order
\* of appearance: un-numbered labels of the section and labels before the
\* marker are left out.
C16_NumberedEntriesOfSection ==
  Parsed /\ HasMarker
         /\ NumberedPositions(parserText, SectionPositions(parserText)) # {} =>
    parserResult[1] =
      TokensAt(parserText, NumberedPositions(parserText, SectionPositions(parserText)))

C16_Witness ==
  /\ Parsed /\ HasMarker
  /\ LET sec == SectionPositions(parserText)
     IN  /\ NumberedPositions(parserText, sec) # {}
         /\ LabelPositions(parserText, sec) # NumberedPositions(parserText, sec)
         /\ LabelPositions(parserText, WholeText(parserText)) # LabelPositions(parserText, sec)
         /\ Len(parserResult[1]) = Cardinality(NumberedPositions(parserText, sec))

\* C17: when the text has the marker and the section after it has labels but
\* no numbered entry, the result is exactly the labels of the section in
\* document order, and no label from before the marker.
C17_LabelsOfSection ==
  Parsed /\ HasMarker
         /\ NumberedPositions(parserText, SectionPositions(parserText)) = {}
         /\ LabelPositions(parserText, SectionPositions(parserText)) # {} =>
    parserResult[1] =
      TokensAt(parserText, LabelPositions(parserText, SectionPositions(parserText)))

C17_Witness ==
  /\ Parsed /\ HasMarker
  /\ LET sec == SectionPositions(parserText)
     IN  /\ NumberedPositions(parserText, sec) = {}
         /\ Cardinality(LabelPositions(parserText, sec)) = 2
         /\ \E u \in LabelPositions(parserText, WholeText(parserText)) :
              u < Least(MarkerPositions(parserText))
         /\ Len(parserResult[1]) = 2
         /\ parserResult[1][1] # parserResult[1][2]

\* C18: when the text has the marker and the section after it has no label,
\* the result is empty, whatever labels stand before the marker.
C18_MarkerWithoutLabelsIsEmpty ==
  Parsed /\ HasMarker
         /\ LabelPositions(parserText, SectionPositions(parserText)) = {} =>
    parserResult[1] = << >>

\* C19 as stated: without the marker the two steps are applied to the whole
\* text, so a text with numbered entries gives only the numbered labels.
C19_NoMarkerTwoSteps ==
  Parsed /\ ~HasMarker =>
    parserResult[1] =
      IF NumberedPositions(parserText, WholeText(parserText)) # {}
      THEN TokensAt(parserText, NumberedPositions(parserText, WholeText(parserText)))
      ELSE TokensAt(parserText, LabelPositions(parserText, WholeText(parserText)))

\* C19: without the marker the result is every label of the whole text in
\* document order, numbered or not: the numbered-list step is not applied.
C19_NoMarkerAllLabels ==
  Parsed /\ ~HasMarker =>
    parserResult[1] = TokensAt(parserText, LabelPositions(parserText, WholeText(parserText)))

C19_Witness ==
  /\ Parsed /\ ~HasMarker
  /\ NumberedPositions(parserText, WholeText(parserText)) # {}
  /\ NumberedPositions(parserText, WholeText(parserText))
       # LabelPositions(parserText, WholeText(parserText))
  /\ Len(parserResult[1]) = Cardinality(LabelPositions(parserText, WholeText(parserText)))

\* C20: the result has one element per match of the pattern that applied, in
\* order: its length is the number of matches, every element is a label, a
\* repeated label is repeated, no letter is filtered out, and the empty text
\* gives the empty sequence.
C20_OneElementPerMatch ==
  Parsed =>
    /\ Len(parserResult[1]) = Cardinality(AppliedPositions(parserText))
    /\ \A i \in 1..Len(parserResult[1]) : parserResult[1][i] \in ResponseLabels
    /\ parserResult[1] = TokensAt(parserText, AppliedPositions(parserText))
    /\ parserText = << >> => parserResult[1] = << >>

C20_Witness ==
  /\ Parsed /\ HasMarker
  /\ Cardinality(LabelPositions(parserText, SectionPositions(parserText))) = 2
  /\ LabelPositions(parserText, WholeText(parserText))
       # LabelPositions(parserText, SectionPositions(parserText))
  /\ parserResult[1] = << "Response Z", "Response Z" >>

----------------------------------------------------------------------------
(* CalculateAggregateRankings on its own: every list of up to MaxModels    *)
(* ranking records with parsed orders of up to MaxParsedLen labels         *)

\* two labels the map may hold and one it never holds
AggLabels == { "Response A", "Response B", "Response Z" }
ParsedOrders == UNION { [1..n -> AggLabels] : n \in 0..MaxParsedLen }

\* the record of ranker i whose whole answer is the labels of order
RankingRecord(i, order) ==
  [ Model |-> ModelPool[i], Ranking |-> order, ParsedRanking |-> order ]

LabelMaps ==
  { << >>,
    "Response A" :> ModelPool[1],
    ("Response A" :> ModelPool[1]) @@ ("Response B" :> ModelPool[2]),
    ("Response A" :> ModelPool[1]) @@ ("Response B" :> ModelPool[1]) }

AggInit ==
  /\ \E n \in 0..MaxModels :
       \E orders \in [1..n -> ParsedOrders] :
         stage2Results = [ i \in 1..n |-> RankingRecord(i, orders[i]) ]
  /\ labelToModel \in LabelMaps
  /\ aggregateRankings = << >>
  /\ pc = "stage2"
  /\ CouncilModels = SubSeq(ModelPool, 1, MaxModels)
  /\ ChairmanModel = ModelPool[2]
  /\ userQuery = "What is Go?"
  /\ cancelled = FALSE
  /\ task = [s \in 1..2 |-> << >>]
  /\ results = [s \in 1..2 |-> << >>]
  /\ mu = [s \in 1..2 |-> 0]
  /\ gerr = [s \in 1..2 |-> NoError]
  /\ qmp = [s \in 1..2 |-> Nil]
  /\ messages = [s \in 1..3 |-> << >>]
  /\ chairman = IdleTask
  /\ stage1Results = << >>
  /\ stage3Result = Nil
  /\ ret = NoRet
  /\ parserText = << >>
  /\ parserResult = Nil
  /\ NoRequest

\* aggregateRankings := CalculateAggregateRankings(stage2Results, labelToModel)
AggCall ==
  /\ pc = "stage2"
  /\ aggregateRankings' \in CalculateAggregateRankings(stage2Results, labelToModel)
  /\ pc' = "stage3"
  /\ UNCHANGED << CouncilModels, ChairmanModel, userQuery, cancelled, task,
                  results, mu, gerr, qmp, messages, chairman, stage1Results,
                  stage2Results, labelToModel, stage3Result, ret, parserVars,
                  serverVars >>

AggNext == AggCall

AggSpec == AggInit /\ [][AggNext]_vars

Aggregated == pc = "stage3"

\* the places <<record, position>> where a label of model m stands
Occurrences(m) ==
  { rp \in (1..Len(stage2Results)) \X (1..MaxParsedLen) :
      /\ rp[2] <= Len(stage2Results[rp[1]].ParsedRanking)
      /\ stage2Results[rp[1]].ParsedRanking[rp[2]] \in DOMAIN labelToModel
      /\ labelToModel[stage2Results[rp[1]].ParsedRanking[rp[2]]] = m }

\* the sum of the positions of the places in occ that are at most k
RECURSIVE PositionSum(_, _)
PositionSum(occ, k) ==
  IF k = 0 THEN 0
  ELSE k * Cardinality({ rp \in occ : rp[2] = k }) + PositionSum(occ, k - 1)

\* C21: every entry of the result carries, for its model, the sum of the
\* 1-based positions of the model's labels in the parsed orders over their
\* number as its average rank, and their number as its count.
C21_AverageIsMeanOfPositions ==
  Aggregated =>
    \A i \in 1..Len(aggregateRankings) :
      LET e   == aggregateRankings[i]
          occ == Occurrences(e.Model)
      IN  /\ e.RankingsCount = Cardinality(occ)
          /\ e.AverageRank = << PositionSum(occ, MaxParsedLen), Cardinality(occ) >>

C21_Witness ==
  /\ Aggregated
  /\ Len(stage2Results) = 2
  /\ \E i \in 1..Len(aggregateRankings) :
       /\ aggregateRankings[i].AverageRank = << 3, 2 >>
       /\ aggregateRankings[i].RankingsCount = 2
       /\ \E r \in 1..2 : \A rp \in Occurrences(aggregateRankings[i].Model) : rp[1] # r

\* C22: the result is in ascending order of average rank: no entry has a
\* greater average than the entry after it.
C22_SortedAscending ==
  Aggregated =>
    \A i \in 1..(Len(aggregateRankings) - 1) :
      aggregateRankings[i].AverageRank[1] * aggregateRankings[i + 1].AverageRank[2]
        <= aggregateRankings[i + 1].AverageRank[1] * aggregateRankings[i].AverageRank[2]

C22_Witness ==
  /\ Aggregated
  /\ Len(aggregateRankings) = 2
  /\ aggregateRankings[1].Model = ModelPool[2]
  /\ aggregateRankings[1].AverageRank = << 3, 2 >>
  /\ aggregateRankings[2].AverageRank = << 2, 1 >>

\* the values of the label map
MappedModels == { labelToModel[l] : l \in DOMAIN labelToModel }

\* C23: the result holds no model twice, holds a model exactly when some
\* parsed order has a label mapped to it, and every entry has a count of at
\* least 1; a label without a mapping adds nothing.
C23_ExactlyTheMentionedModels ==
  Aggregated =>
    /\ \A i, j \in 1..Len(aggregateRankings) :
         aggregateRankings[i].Model = aggregateRankings[j].Model => i = j
    /\ { aggregateRankings[i].Model : i \in 1..Len(aggregateRankings) }
         = { m \in MappedModels : Occurrences(m) # {} }
    /\ \A i \in 1..Len(aggregateRankings) : aggregateRankings[i].RankingsCount >= 1

C23_Witness ==
  /\ Aggregated
  /\ Cardinality(MappedModels) = 2
  /\ Len(aggregateRankings) = 1
  /\ \E r \in 1..Len(stage2Results) :
       \E p \in 1..Len(stage2Results[r].ParsedRanking) :
         stage2Results[r].ParsedRanking[p] \notin DOMAIN labelToModel

\* the number of places in record r where label l stands
TimesIn(r, l) ==
  Cardinality({ p \in 1..Len(stage2Results[r].ParsedRanking) :
                  stage2Results[r].ParsedRanking[p] = l })

\* record r holds l more than once
Repeats(r, l) == TimesIn(r, l) >= 2

\* C24: when a parsed order repeats a label of the map, every repeat counts:
\* the model's count is the number of all places of its labels, repeats
\* included, and its average is the sum of all these positions over it.
C24_RepeatsAreCounted ==
  Aggregated =>
    \A r \in 1..Len(stage2Results) : \A l \in DOMAIN labelToModel :
      Repeats(r, l) =>
        \E i \in 1..Len(aggregateRankings) :
          LET e == aggregateRankings[i]
          IN  /\ e.Model = labelToModel[l]
              /\ e.RankingsCount >= TimesIn(r, l)
              /\ e.RankingsCount = Cardinality(Occurrences(e.Model))
              /\ e.AverageRank[1] = PositionSum(Occurrences(e.Model), MaxParsedLen)
              /\ e.AverageRank[2] = e.RankingsCount

C24_Witness ==
  /\ Aggregated
  /\ Len(stage2Results) = 1
  /\ Repeats(1, "Response A")
  /\ Len(aggregateRankings) = 1
  /\ aggregateRankings[1].RankingsCount > Len(stage2Results)
  /\ aggregateRankings[1].AverageRank = << 3, 2 >>

----------------------------------------------------------------------------
(* Who is invoked in each stage                                            *)

\* how far goroutine i of a call has come
TaskStep(p) ==
  CASE p = "idle" -> 0 [] p = "QueryModel" -> 1 [] p = "Lock" -> 2
    [] p = "Unlock" -> 3 [] OTHER -> 4

\* both calls have one goroutine per council model, and a call that returned
\* asked every council model
SameModelSetAsked ==
  /\ \A s \in 1..2 : DOMAIN task[s] = 1..Len(CouncilModels)
  /\ \A s \in 1..2 :
       qmp[s] # Nil =>
         /\ \A i \in 1..N : task[s][i].pc = "done"
         /\ DOMAIN results[s] = { CouncilModels[i] : i \in 1..N }
  /\ qmp[2] # Nil => DOMAIN results[2] = DOMAIN results[1]

\* C25: Stage 2 asks the council models Stage 1 asked, the models that
\* failed in Stage 1 included, and in each stage every council model is
\* invoked once: its goroutine goes through idle, QueryModel, Lock, Unlock,
\* done one step at a time, and a failed call is not issued again.
C25_EachModelOncePerStage ==
  /\ []SameModelSetAsked
  /\ [][ /\ CouncilModels' = CouncilModels
         /\ \A s \in 1..2 : \A i \in 1..N :
              task'[s][i] # task[s][i] =>
                TaskStep(task'[s][i].pc) = TaskStep(task[s][i].pc) + 1 ]_vars

C25_Witness ==
  /\ pc = "stage3"
  /\ N = 2
  /\ Failed(1, 2) /\ Succeeded(2, 2)
  /\ Len(stage1Results) = 1
  /\ \E k \in 1..Len(stage2Results) : stage2Results[k].Model = CouncilModels[2]

\* C26: Stage 3 makes one invocation, the chairman's: it is issued on
\* entering Stage 3, no council model is invoked during Stage 3, it returns
\* once, and on success the one Stage-3 result carries the chairman's model
\* identifier and the text the chairman returned.
C26_OneChairmanInvocation ==
  /\ [](/\ pc = "stage3" => chairman.pc = "QueryModel"
        /\ chairman.pc # "idle" => \A s \in 1..2 : \A i \in 1..N : task[s][i].pc = "done"
        /\ pc = "done" =>
             /\ chairman.pc = "done" /\ chairman.err = NoError
             /\ stage3Result = << [ Model    |-> ChairmanModel,
                                    Response |-> chairman.response[1].Content ] >>
             /\ ret.stage3 = stage3Result[1])
  /\ [][ /\ chairman' # chairman =>
              \/ chairman.pc = "idle" /\ chairman'.pc = "QueryModel" /\ pc' = "stage3"
              \/ chairman.pc = "QueryModel" /\ chairman'.pc = "done" /\ pc' # "stage3"
         /\ pc = "stage3" => task' = task
         /\ ChairmanModel' = ChairmanModel ]_vars

C26_Witness ==
  /\ pc = "done"
  /\ N = 2
  /\ ChairmanModel = CouncilModels[2]
  /\ Failed(1, 2) /\ Failed(2, 2)
  /\ ret.stage3.Model = ChairmanModel

\* the raw text model i returned in Stage 2
RawRanking(i) == task[2][i].response[1].Content

\* C27: after Stage 2 has returned, stage2Results has one record per council
\* model whose Stage-2 invocation succeeded and none for the others; the
\* record carries the model's identifier, the text it returned and the
\* parse of that text, which may be empty.
C27_OneRecordPerSuccessfulRanker ==
  (qmp[2] # Nil /\ qmp[2][1].err = NoError) =>
    /\ Len(stage2Results) = Cardinality({ i \in 1..N : Succeeded(2, i) })
    /\ \A i \in 1..N :
         Succeeded(2, i) =>
           \E k \in 1..Len(stage2Results) :
             /\ DOMAIN stage2Results[k] = { "Model", "Ranking", "ParsedRanking" }
             /\ stage2Results[k].Model = CouncilModels[i]
             /\ stage2Results[k].Ranking = RawRanking(i)
             /\ stage2Results[k].ParsedRanking = ParseRankingFromText(RawRanking(i))
    /\ \A k \in 1..Len(stage2Results) :
         \E i \in 1..N : Succeeded(2, i) /\ stage2Results[k].Model = CouncilModels[i]

C27_Witness ==
  /\ qmp[2] # Nil
  /\ N = 2
  /\ Failed(2, 1) /\ Succeeded(2, 2)
  /\ Len(stage2Results) = 1
  /\ stage2Results[1].Model = CouncilModels[2]
  /\ stage2Results[1].Ranking # << >>
  /\ stage2Results[1].ParsedRanking = << >>

----------------------------------------------------------------------------
(* Conversation storage (storage.go, models.go)                            *)
(*                                                                         *)
(* A Conversation is [ID, Title, Messages]; a Message is [Role, Content,   *)
(* Stage1, Stage2, Stage3] with Stage3 a pointer, Nil or <<value>>.  The   *)
(* file holds the JSON document: an object is a function from its keys.    *)
(* CreatedAt is written once by CreateConversation and is left out.        *)

ConversationID == "test-send"

EmptyObject == [ k \in {} |-> << >> ]

\* one key of an object; omitempty leaves the key out
Member(key, value, omitted) == IF omitted THEN EmptyObject ELSE key :> value

MarshalStage1(s1) ==
  [ i \in 1..Len(s1) |-> [model |-> s1[i].Model, response |-> s1[i].Response] ]

MarshalStage2(s2) ==
  [ i \in 1..Len(s2) |->
      [model |-> s2[i].Model, ranking |-> s2[i].Ranking,
       parsed_ranking |-> s2[i].ParsedRanking] ]

\* json.Marshal of a Message: content, stage1, stage2 and stage3 are omitempty
MarshalMessageWithoutRankings(m) ==
  Member("role", m.Role, FALSE)
    @@ Member("content", m.Content, m.Content = "")
    @@ Member("stage1", MarshalStage1(m.Stage1), Len(m.Stage1) = 0)
    @@ Member("stage3",
              IF m.Stage3 = Nil THEN << >>
              ELSE [model |-> m.Stage3[1].Model, response |-> m.Stage3[1].Response],
              m.Stage3 = Nil)
MarshalMessage(m) ==
  Member("role", m.Role, FALSE)
    @@ Member("content", m.Content, m.Content = "")
    @@ Member("stage1", MarshalStage1(m.Stage1), Len(m.Stage1) = 0)
    @@ Member("stage2", MarshalStage2(m.Stage2), Len(m.Stage2) = 0)
    @@ Member("stage3",
              IF m.Stage3 = Nil THEN << >>
              ELSE [model |-> m.Stage3[1].Model, response |-> m.Stage3[1].Response],
              m.Stage3 = Nil)

\* json.Unmarshal into a zero Message: a missing key leaves the zero value
UnmarshalMessage(j) ==
  [ Role    |-> IF "role" \in DOMAIN j THEN j["role"] ELSE "",
    Content |-> IF "content" \in DOMAIN j THEN j["content"] ELSE "",
    Stage1  |-> IF "stage1" \in DOMAIN j
                THEN [ i \in 1..Len(j["stage1"]) |->
                         [Model    |-> j["stage1"][i].model,
                          Response |-> j["stage1"][i].response] ]
                ELSE << >>,
    Stage2  |-> IF "stage2" \in DOMAIN j
                THEN [ i \in 1..Len(j["stage2"]) |->
                         [Model         |-> j["stage2"][i].model,
                          Ranking       |-> j["stage2"][i].ranking,
                          ParsedRanking |-> j["stage2"][i].parsed_ranking] ]
                ELSE << >>,
    Stage3  |-> IF "stage3" \in DOMAIN j
                THEN << [Model |-> j["stage3"].model, Response |-> j["stage3"].response] >>
                ELSE Nil ]

MarshalConversation(c) ==
  [ id       |-> c.ID,
    title    |-> c.Title,
    messages |-> [ i \in 1..Len(c.Messages) |-> MarshalMessage(c.Messages[i]) ] ]

UnmarshalConversation(j) ==
  [ ID       |-> j.id,
    Title    |-> j.title,
    Messages |-> [ i \in 1..Len(j.messages) |-> UnmarshalMessage(j.messages[i]) ] ]

\* GetConversation: nil without error when the file does not exist
GetConversation(f) == IF f = Nil THEN Nil ELSE << UnmarshalConversation(f[1]) >>

\* what SaveConversation leaves in the file: the document when the write
\* succeeded, the old content when it failed
SaveConversation(f, c, ok) == IF ok THEN << MarshalConversation(c) >> ELSE f

UserMessage(content) ==
  [Role |-> "user", Content |-> content, Stage1 |-> << >>, Stage2 |-> << >>,
   Stage3 |-> Nil]

AssistantMessage(s1, s2, s3) ==
  [Role |-> "assistant", Content |-> "", Stage1 |-> s1, Stage2 |-> s2,
   Stage3 |-> << s3 >>]

AppendMessage(c, m) == [c EXCEPT !.Messages = Append(@, m)]

\* CreateConversation
NewConversation ==
  [ID |-> ConversationID, Title |-> "New Conversation", Messages |-> << >>]

----------------------------------------------------------------------------
(* AddAssistantMessage followed by GetConversation, with no other writer   *)

\* Stage-1 and Stage-2 lists and Stage-3 values a run may hand over
Stage1Lists ==
  { << >>,
    << [Model |-> ModelPool[1], Response |-> << "Go", " ", "is", " ", "a", " ", "language" >>] >>,
    << [Model |-> ModelPool[2], Response |-> << >>],
       [Model |-> ModelPool[1], Response |-> << "Go", " ", "is", " ", "a", " ", "language" >>] >> }

Stage2Lists ==
  { << >> }
  \cup { << [Model |-> ModelPool[1], Ranking |-> t,
             ParsedRanking |-> ParseRankingFromText(t)] >> : t \in RankingTexts }

Stage3Values ==
  { [Model |-> ModelPool[2], Response |-> t] : t \in SynthesisTexts \cup { << >> } }

\* the conversation files a request may find
StoredFiles ==
  { Nil,
    << MarshalConversation(NewConversation) >>,
    << MarshalConversation(AppendMessage(NewConversation, UserMessage("What is Go?"))) >>,
    << MarshalConversation(
         AppendMessage(AppendMessage(NewConversation, UserMessage("What is Go?")),
                       AssistantMessage(<< >>, << >>,
                                        [Model |-> ModelPool[2], Response |-> << >>]))) >> }

StorageInit ==
  /\ file \in StoredFiles
  /\ stage1Results \in Stage1Lists
  /\ stage2Results \in Stage2Lists
  /\ stage3Result \in { << v >> : v \in Stage3Values }
  /\ hpc = "AddAssistantMessage"
  /\ hconv = Nil
  /\ got = Nil
  /\ tpc = "none"
  /\ tconv = Nil
  /\ title = Nil
  /\ titleChan = Nil
  /\ events = << >>
  /\ status = 0
  /\ CouncilModels = SubSeq(ModelPool, 1, 2)
  /\ ChairmanModel = ModelPool[2]
  /\ userQuery = "What is Go?"
  /\ cancelled = FALSE
  /\ pc = "done"
  /\ task = [s \in 1..2 |-> << >>]
  /\ results = [s \in 1..2 |-> << >>]
  /\ mu = [s \in 1..2 |-> 0]
  /\ gerr = [s \in 1..2 |-> NoError]
  /\ qmp = [s \in 1..2 |-> Nil]
  /\ messages = [s \in 1..3 |-> << >>]
  /\ chairman = IdleTask
  /\ labelToModel = << >>
  /\ aggregateRankings = << >>
  /\ ret = NoRet
  /\ parserText = << >>
  /\ parserResult = Nil

councilVars ==
  << CouncilModels, ChairmanModel, userQuery, cancelled, pc, task, results, mu,
     gerr, qmp, messages, chairman, stage1Results, stage2Results, labelToModel,
     aggregateRankings, stage3Result, ret >>

\* AddAssistantMessage: load the conversation and append the message
AddAssistantLoad ==
  /\ hpc = "AddAssistantMessage"
  /\ IF GetConversation(file) = Nil
     THEN /\ hpc' = "failed"
          /\ hconv' = Nil
     ELSE /\ hpc' = "SaveConversation"
          /\ hconv' = << AppendMessage(GetConversation(file)[1],
                           AssistantMessage(stage1Results, stage2Results,
                                            stage3Result[1])) >>
  /\ UNCHANGED << councilVars, parserVars, file, tpc, tconv, title, titleChan, events,
                  status, got >>

\* AddAssistantMessage: save the conversation and return
AddAssistantSave ==
  /\ hpc = "SaveConversation"
  /\ \E ok \in BOOLEAN :
       /\ file' = SaveConversation(file, hconv[1], ok)
       /\ hpc' = IF ok THEN "GetConversation" ELSE "failed"
  /\ UNCHANGED << councilVars, parserVars, hconv, tpc, tconv, title, titleChan, events,
                  status, got >>

\* conv, err := GetConversation(id)
GetStored ==
  /\ hpc = "GetConversation"
  /\ got' = << GetConversation(file) >>
  /\ hpc' = "done"
  /\ UNCHANGED << councilVars, parserVars, file, hconv, tpc, tconv, title, titleChan,
                  events, status >>

StorageNext == AddAssistantLoad \/ AddAssistantSave \/ GetStored

StorageSpec == StorageInit /\ [][StorageNext]_vars

\* C30: after AddAssistantMessage returned without error, GetConversation
\* returns the conversation whose last message has role "assistant" and the
\* Stage-1 list, Stage-2 list and Stage-3 value that were handed over; the
\* stored message has no key for the label map or the aggregate rankings.
C30_AssistantMessageRoundTrip ==
  (hpc = "done" /\ got # Nil) =>
    /\ got[1] # Nil
    /\ LET stored == got[1][1].Messages
           last   == stored[Len(stored)]
       IN  /\ Len(stored) >= 1
           /\ last.Role = "assistant"
           /\ last.Stage1 = stage1Results
           /\ last.Stage2 = stage2Results
           /\ last.Stage3 = stage3Result
    /\ LET document == file[1].messages[Len(file[1].messages)]
       IN  DOMAIN document \subseteq { "role", "content", "stage1", "stage2", "stage3" }

C30_Witness ==
  /\ hpc = "done"
  /\ Len(got[1][1].Messages) = 2
  /\ got[1][1].Messages[2].Role = "assistant"
  /\ Len(got[1][1].Messages[2].Stage1) = 2
  /\ Len(got[1][1].Messages[2].Stage2) = 1
  /\ got[1][1].Messages[2].Stage2[1].ParsedRanking = << "Response B", "Response A" >>
  /\ got[1][1].Messages[2].Stage3[1].Response # << >>

----------------------------------------------------------------------------
(* sendMessageHandler and its title goroutine (main.go)                    *)

\* what RunFullCouncil may return to a handler
CouncilReturns ==
  { AllFailedReturn, ErrorReturn("stage 3 failed") }
  \cup UNION { UNION { UNION {
         { SuccessReturn(s1, s2, s3, LabelToModel(s1), aggregate) :
             aggregate \in CalculateAggregateRankings(s2, LabelToModel(s1)) } :
         s3 \in Stage3Values } : s2 \in Stage2Lists } : s1 \in Stage1Lists \ { << >> } }

\* what GenerateConversationTitle may return
TitleOutcomes ==
  { [title |-> "Go Language", err |-> NoError],
    [title |-> "", err |-> NoError],
    [title |-> "", err |-> "title generation failed"] }

\* the title the goroutine passes to UpdateConversationTitle
TitleToStore(outcome) ==
  IF outcome.err # NoError THEN "New Conversation" ELSE outcome.title

HandlerInit ==
  /\ file \in StoredFiles
  /\ hpc = "sendMessageHandler"
  /\ hconv = Nil
  /\ got = Nil
  /\ tpc = "none"
  /\ tconv = Nil
  /\ title = Nil
  /\ titleChan = Nil
  /\ events = << >>
  /\ status = 0
  /\ CouncilModels = SubSeq(ModelPool, 1, 2)
  /\ ChairmanModel = ModelPool[2]
  /\ userQuery = "What is Go?"
  /\ cancelled = FALSE
  /\ pc = "stage1"
  /\ task = [s \in 1..2 |-> << >>]
  /\ results = [s \in 1..2 |-> << >>]
  /\ mu = [s \in 1..2 |-> 0]
  /\ gerr = [s \in 1..2 |-> NoError]
  /\ qmp = [s \in 1..2 |-> Nil]
  /\ messages = [s \in 1..3 |-> << >>]
  /\ chairman = IdleTask
  /\ stage1Results = << >>
  /\ stage2Results = << >>
  /\ stage3Result = Nil
  /\ labelToModel = << >>
  /\ aggregateRankings = << >>
  /\ ret = NoRet
  /\ parserText = << >>
  /\ parserResult = Nil

\* the council state a handler step leaves alone
councilButRet ==
  << CouncilModels, ChairmanModel, userQuery, cancelled, task, results, mu,
     gerr, qmp, messages, chairman, stage1Results, stage2Results, labelToModel,
     aggregateRankings, stage3Result >>

\* GetConversation, the 404 answer, isFirstMessage: tpc "pending" stands for
\* isFirstMessage = true until the goroutine is started
HandlerGet ==
  /\ hpc = "sendMessageHandler"
  /\ IF GetConversation(file) = Nil
     THEN /\ status' = 404
          /\ hpc' = "done"
          /\ tpc' = tpc
     ELSE /\ status' = status
          /\ hpc' = "AddUserMessage"
          /\ tpc' = IF Len(GetConversation(file)[1].Messages) = 0 THEN "pending" ELSE "none"
  /\ UNCHANGED << councilVars, parserVars, file, hconv, tconv, title, titleChan,
                  events, got >>

\* AddUserMessage: load and append
HandlerAddUserLoad ==
  /\ hpc = "AddUserMessage"
  /\ hconv' = IF GetConversation(file) = Nil THEN Nil
              ELSE << AppendMessage(GetConversation(file)[1], UserMessage(userQuery)) >>
  /\ hpc' = "AddUserMessage.Save"
  /\ UNCHANGED << councilVars, parserVars, file, tpc, tconv, title, titleChan, events,
                  status, got >>

\* AddUserMessage: save; the handler answers 500 on an error, otherwise it
\* starts the title goroutine when this is the first message and goes on
HandlerAddUserSave ==
  /\ hpc = "AddUserMessage.Save"
  /\ \E ok \in BOOLEAN :
       IF hconv # Nil /\ ok
       THEN /\ file' = SaveConversation(file, hconv[1], TRUE)
            /\ hpc' = "RunFullCouncil"
            /\ tpc' = IF tpc = "pending" THEN "GenerateConversationTitle" ELSE tpc
            /\ status' = status
       ELSE /\ file' = file
            /\ hpc' = "done"
            /\ tpc' = "none"
            /\ status' = 500
  /\ UNCHANGED << councilVars, parserVars, hconv, tconv, title, titleChan, events, got >>

\* a mutant of HandlerRunFullCouncil: the error of the run is not tested
HandlerRunFullCouncilIgnoresError ==
  /\ hpc = "RunFullCouncil"
  /\ ret' \in CouncilReturns
  /\ pc' = Returned(ret')
  /\ status' = status
  /\ hpc' = "AddAssistantMessage"
  /\ UNCHANGED << councilButRet, parserVars, file, hconv, tpc, tconv, title, titleChan,
                  events, got >>

\* RunFullCouncil returns to the handler
HandlerRunFullCouncil ==
  /\ hpc = "RunFullCouncil"
  /\ ret' \in CouncilReturns
  /\ pc' = Returned(ret')
  /\ IF ret'.err # NoError
     THEN /\ status' = 500
          /\ hpc' = "done"
     ELSE /\ status' = status
          /\ hpc' = "AddAssistantMessage"
  /\ UNCHANGED << councilButRet, parserVars, file, hconv, tpc, tconv, title, titleChan,
                  events, got >>

\* AddAssistantMessage: load and append
HandlerAddAssistantLoad ==
  /\ hpc = "AddAssistantMessage"
  /\ hconv' = IF GetConversation(file) = Nil THEN Nil
              ELSE << AppendMessage(GetConversation(file)[1],
                                    AssistantMessage(ret.stage1, ret.stage2, ret.stage3)) >>
  /\ hpc' = "AddAssistantMessage.Save"
  /\ UNCHANGED << councilVars, parserVars, file, tpc, tconv, title, titleChan, events,
                  status, got >>

\* AddAssistantMessage: save; the handler answers 200 with the run, 500 on
\* an error
HandlerAddAssistantSave ==
  /\ hpc = "AddAssistantMessage.Save"
  /\ \E ok \in BOOLEAN :
       IF hconv # Nil /\ ok
       THEN /\ file' = SaveConversation(file, hconv[1], TRUE)
            /\ status' = 200
       ELSE /\ file' = file
            /\ status' = 500
  /\ hpc' = "done"
  /\ UNCHANGED << councilVars, parserVars, hconv, tpc, tconv, title, titleChan, events,
                  got >>

\* the goroutine: GenerateConversationTitle returns
TitleGenerate ==
  /\ tpc = "GenerateConversationTitle"
  /\ title' \in { << o >> : o \in TitleOutcomes }
  /\ tpc' = "UpdateConversationTitle"
  /\ UNCHANGED << councilVars, parserVars, file, hpc, hconv, tconv, titleChan, events,
                  status, got >>

\* UpdateConversationTitle: load and set the title
TitleUpdateLoad ==
  /\ tpc = "UpdateConversationTitle"
  /\ tconv' = IF GetConversation(file) = Nil THEN Nil
              ELSE << [GetConversation(file)[1] EXCEPT !.Title = TitleToStore(title[1])] >>
  /\ tpc' = "UpdateConversationTitle.Save"
  /\ UNCHANGED << councilVars, parserVars, file, hpc, hconv, title, titleChan, events,
                  status, got >>

\* UpdateConversationTitle: save; the goroutine of sendMessageHandler ends
\* here, "done" when the title was stored
TitleUpdateSave ==
  /\ tpc = "UpdateConversationTitle.Save"
  /\ titleChan = Nil
  /\ \E ok \in BOOLEAN :
       IF tconv # Nil /\ ok
       THEN /\ file' = SaveConversation(file, tconv[1], TRUE)
            /\ tpc' = "done"
       ELSE /\ file' = file
            /\ tpc' = "failed"
  /\ UNCHANGED << councilVars, parserVars, hpc, hconv, tconv, title, titleChan, events,
                  status, got >>

HandlerNext ==
  \/ HandlerGet
  \/ HandlerAddUserLoad
  \/ HandlerAddUserSave
  \/ HandlerRunFullCouncil
  \/ HandlerAddAssistantLoad
  \/ HandlerAddAssistantSave
  \/ TitleGenerate
  \/ TitleUpdateLoad
  \/ TitleUpdateSave

HandlerSpec == HandlerInit /\ [][HandlerNext]_vars

\* the handler answered 200 and the goroutine stored its title
BothReturned == hpc = "done" /\ status = 200 /\ tpc = "done"

\* C29: handling the first message, once AddAssistantMessage and
\* UpdateConversationTitle have both returned without error the conversation
\* file holds the user message, the assistant message and the new title.
C29_NoLostUpdate ==
  BothReturned =>
    LET stored == GetConversation(file)[1]
    IN  /\ Len(stored.Messages) = 2
        /\ stored.Messages[1] = UserMessage(userQuery)
        /\ stored.Messages[2] = AssistantMessage(ret.stage1, ret.stage2, ret.stage3)
        /\ stored.Title = TitleToStore(title[1])

----------------------------------------------------------------------------
(* sendMessageStreamHandler and its title goroutine (main.go)              *)

\* sendSSEEvent(c, gin.H{"type": ..., "data": ...})
Event(type, data) == [type |-> type, data |-> data]

\* the types of the events written so far
EventTypes == [i \in 1..Len(events) |-> events[i].type]

StreamInit ==
  /\ file \in StoredFiles
  /\ hpc = "sendMessageStreamHandler"
  /\ hconv = Nil
  /\ got = Nil
  /\ tpc = "none"
  /\ tconv = Nil
  /\ title = Nil
  /\ titleChan = Nil
  /\ events = << >>
  /\ status = 0
  /\ CouncilModels = SubSeq(ModelPool, 1, 2)
  /\ ChairmanModel = ModelPool[2]
  /\ userQuery = "What is Go?"
  /\ cancelled = FALSE
  /\ pc = "stage1"
  /\ task = [s \in 1..2 |-> << >>]
  /\ results = [s \in 1..2 |-> << >>]
  /\ mu = [s \in 1..2 |-> 0]
  /\ gerr = [s \in 1..2 |-> NoError]
  /\ qmp = [s \in 1..2 |-> Nil]
  /\ messages = [s \in 1..3 |-> << >>]
  /\ chairman = IdleTask
  /\ stage1Results = << >>
  /\ stage2Results = << >>
  /\ stage3Result = Nil
  /\ labelToModel = << >>
  /\ aggregateRankings = << >>
  /\ ret = NoRet
  /\ parserText = << >>
  /\ parserResult = Nil

\* GetConversation, the 404 answer, isFirstMessage (tpc "pending")
StreamGet ==
  /\ hpc = "sendMessageStreamHandler"
  /\ IF GetConversation(file) = Nil
     THEN /\ status' = 404
          /\ hpc' = "done"
          /\ tpc' = tpc
     ELSE /\ status' = status
          /\ hpc' = "stream.AddUserMessage"
          /\ tpc' = IF Len(GetConversation(file)[1].Messages) = 0 THEN "pending" ELSE "none"
  /\ UNCHANGED << councilVars, parserVars, file, hconv, tconv, title, titleChan,
                  events, got >>

\* AddUserMessage: load and append
StreamAddUserLoad ==
  /\ hpc = "stream.AddUserMessage"
  /\ hconv' = IF GetConversation(file) = Nil THEN Nil
              ELSE << AppendMessage(GetConversation(file)[1], UserMessage(userQuery)) >>
  /\ hpc' = "stream.AddUserMessage.Save"
  /\ UNCHANGED << councilVars, parserVars, file, tpc, tconv, title, titleChan, events,
                  status, got >>

\* AddUserMessage: save; an error event ends the stream, otherwise the
\* channel is made and the goroutine started when this is the first message
StreamAddUserSave ==
  /\ hpc = "stream.AddUserMessage.Save"
  /\ \E ok \in BOOLEAN :
       IF hconv # Nil /\ ok
       THEN /\ file' = SaveConversation(file, hconv[1], TRUE)
            /\ hpc' = "stage1_start"
            /\ tpc' = IF tpc = "pending" THEN "GenerateConversationTitle" ELSE tpc
            /\ titleChan' = IF tpc = "pending"          \* make(chan string, 1)
                            THEN << [buf |-> << >>, closed |-> FALSE] >>
                            ELSE Nil
            /\ UNCHANGED << events, status >>
       ELSE /\ file' = file
            /\ hpc' = "done"
            /\ tpc' = "none"
            /\ titleChan' = titleChan
            /\ events' = Append(events, Event("error", "Failed to add user message"))
            /\ status' = 200
  /\ UNCHANGED << councilVars, parserVars, hconv, tconv, title, got >>

StreamStage1Start ==
  /\ hpc = "stage1_start"
  /\ events' = Append(events, Event("stage1_start", Nil))
  /\ status' = 200
  /\ hpc' = "Stage1CollectResponses"
  /\ UNCHANGED << councilVars, parserVars, file, hconv, tpc, tconv, title, titleChan, got >>

\* Stage1CollectResponses returns (its error is always nil) and
\* stage1_complete is written; there is no check for an empty list
StreamStage1Complete ==
  /\ hpc = "Stage1CollectResponses"
  /\ stage1Results' \in Stage1Lists
  /\ events' = Append(events, Event("stage1_complete", stage1Results'))
  /\ hpc' = "stage2_start"
  /\ UNCHANGED << CouncilModels, ChairmanModel, userQuery, cancelled, pc, task, results,
                  mu, gerr, qmp, messages, chairman, stage2Results, stage3Result,
                  labelToModel, aggregateRankings, ret >>
  /\ UNCHANGED << parserVars, file, hconv, tpc, tconv, title, titleChan, status, got >>

StreamStage2Start ==
  /\ hpc = "stage2_start"
  /\ events' = Append(events, Event("stage2_start", Nil))
  /\ hpc' = "Stage2CollectRankings"
  /\ UNCHANGED << councilVars, parserVars, file, hconv, tpc, tconv, title, titleChan,
                  status, got >>

\* Stage2CollectRankings returns (its error is always nil),
\* CalculateAggregateRankings runs and stage2_complete is written
StreamStage2Complete ==
  /\ hpc = "Stage2CollectRankings"
  /\ stage2Results' \in Stage2Lists
  /\ labelToModel' = LabelToModel(stage1Results)
  /\ aggregateRankings' \in CalculateAggregateRankings(stage2Results', labelToModel')
  /\ events' = Append(events,
                 Event("stage2_complete",
                       [data |-> stage2Results',
                        metadata |-> [LabelToModel |-> labelToModel',
                                      AggregateRankings |-> aggregateRankings']]))
  /\ hpc' = "stage3_start"
  /\ UNCHANGED << CouncilModels, ChairmanModel, userQuery, cancelled, pc, task, results,
                  mu, gerr, qmp, messages, chairman, stage1Results, stage3Result, ret >>
  /\ UNCHANGED << parserVars, file, hconv, tpc, tconv, title, titleChan, status, got >>

StreamStage3Start ==
  /\ hpc = "stage3_start"
  /\ events' = Append(events, Event("stage3_start", Nil))
  /\ hpc' = "Stage3SynthesizeFinal"
  /\ UNCHANGED << councilVars, parserVars, file, hconv, tpc, tconv, title, titleChan,
                  status, got >>

\* a mutant of StreamStage3Complete: no return after the error event
StreamStage3CompleteNoReturn ==
  /\ hpc = "Stage3SynthesizeFinal"
  /\ \/ /\ events' = Append(events, Event("error", "Stage 3 failed"))
        /\ stage3Result' = << [Model |-> ChairmanModel, Response |-> << >>] >>
     \/ \E v \in Stage3Values :
          /\ stage3Result' = << v >>
          /\ events' = Append(events, Event("stage3_complete", v))
  /\ hpc' = IF titleChan # Nil THEN "<-titleChan" ELSE "stream.AddAssistantMessage"
  /\ UNCHANGED << CouncilModels, ChairmanModel, userQuery, cancelled, pc, task, results,
                  mu, gerr, qmp, messages, chairman, stage1Results, stage2Results,
                  labelToModel, aggregateRankings, ret >>
  /\ UNCHANGED << parserVars, file, hconv, tpc, tconv, title, titleChan, status, got >>

\* Stage3SynthesizeFinal returns: an error event ends the stream, otherwise
\* stage3_complete is written
StreamStage3Complete ==
  /\ hpc = "Stage3SynthesizeFinal"
  /\ \/ /\ events' = Append(events, Event("error", "Stage 3 failed"))
        /\ stage3Result' = Nil
        /\ hpc' = "done"
     \/ \E v \in Stage3Values :
          /\ stage3Result' = << v >>
          /\ events' = Append(events, Event("stage3_complete", v))
          /\ hpc' = IF titleChan # Nil THEN "<-titleChan" ELSE "stream.AddAssistantMessage"
  /\ UNCHANGED << CouncilModels, ChairmanModel, userQuery, cancelled, pc, task, results,
                  mu, gerr, qmp, messages, chairman, stage1Results, stage2Results,
                  labelToModel, aggregateRankings, ret >>
  /\ UNCHANGED << parserVars, file, hconv, tpc, tconv, title, titleChan, status, got >>

\* title := <-titleChan: blocks until a title is buffered or the channel is
\* closed (then the zero value ""); title_complete only for a non-empty title
StreamReceiveTitle ==
  /\ hpc = "<-titleChan"
  /\ titleChan[1].buf # << >> \/ titleChan[1].closed
  /\ IF titleChan[1].buf # << >>
     THEN /\ titleChan' = << [titleChan[1] EXCEPT !.buf = Tail(@)] >>
          /\ events' = IF Head(titleChan[1].buf) # ""
                       THEN Append(events, Event("title_complete",
                                                 [title |-> Head(titleChan[1].buf)]))
                       ELSE events
     ELSE UNCHANGED << titleChan, events >>
  /\ hpc' = "stream.AddAssistantMessage"
  /\ UNCHANGED << councilVars, parserVars, file, hconv, tpc, tconv, title, status, got >>

\* AddAssistantMessage: load and append (stage3 is never nil here)
StreamAddAssistantLoad ==
  /\ hpc = "stream.AddAssistantMessage"
  /\ hconv' = IF GetConversation(file) = Nil THEN Nil
              ELSE << AppendMessage(GetConversation(file)[1],
                                    AssistantMessage(stage1Results, stage2Results,
                                                     stage3Result[1])) >>
  /\ hpc' = "stream.AddAssistantMessage.Save"
  /\ UNCHANGED << councilVars, parserVars, file, tpc, tconv, title, titleChan, events,
                  status, got >>

\* a mutant of StreamAddAssistantSave: complete is written whatever
\* AddAssistantMessage returned
StreamAddAssistantSaveAlwaysComplete ==
  /\ hpc = "stream.AddAssistantMessage.Save"
  /\ \E ok \in BOOLEAN :
       file' = IF hconv # Nil /\ ok THEN SaveConversation(file, hconv[1], TRUE) ELSE file
  /\ events' = Append(events, Event("complete", Nil))
  /\ hpc' = "done"
  /\ UNCHANGED << councilVars, parserVars, hconv, tpc, tconv, title, titleChan, status,
                  got >>

\* AddAssistantMessage: save; then the complete event, or an error event
StreamAddAssistantSave ==
  /\ hpc = "stream.AddAssistantMessage.Save"
  /\ \E ok \in BOOLEAN :
       IF hconv # Nil /\ ok
       THEN /\ file' = SaveConversation(file, hconv[1], TRUE)
            /\ events' = Append(events, Event("complete", Nil))
       ELSE /\ file' = file
            /\ events' = Append(events, Event("error", "Failed to save message"))
  /\ hpc' = "done"
  /\ UNCHANGED << councilVars, parserVars, hconv, tpc, tconv, title, titleChan, status,
                  got >>

\* a mutant of StreamTitleUpdateSave: close(titleChan) only after a send
StreamTitleUpdateSaveCloseInElse ==
  /\ tpc = "UpdateConversationTitle.Save"
  /\ titleChan # Nil
  /\ \E ok \in BOOLEAN :
       file' = IF tconv # Nil /\ ok THEN SaveConversation(file, tconv[1], TRUE) ELSE file
  /\ tpc' = IF title[1].err = NoError THEN "titleChan <- title" ELSE "done"
  /\ UNCHANGED << councilVars, parserVars, hpc, hconv, tconv, title, titleChan, events,
                  status, got >>

\* the goroutine's UpdateConversationTitle: save, its result ignored; a
\* generated title is then sent, after an error the channel is only closed
StreamTitleUpdateSave ==
  /\ tpc = "UpdateConversationTitle.Save"
  /\ titleChan # Nil
  /\ \E ok \in BOOLEAN :
       file' = IF tconv # Nil /\ ok THEN SaveConversation(file, tconv[1], TRUE) ELSE file
  /\ tpc' = IF title[1].err = NoError THEN "titleChan <- title" ELSE "close(titleChan)"
  /\ UNCHANGED << councilVars, parserVars, hpc, hconv, tconv, title, titleChan, events,
                  status, got >>

\* titleChan <- title: the buffer of one is free, the send does not block
StreamTitleSend ==
  /\ tpc = "titleChan <- title"
  /\ Len(titleChan[1].buf) < 1
  /\ titleChan' = << [titleChan[1] EXCEPT !.buf = Append(@, title[1].title)] >>
  /\ tpc' = "close(titleChan)"
  /\ UNCHANGED << councilVars, parserVars, file, hpc, hconv, tconv, title, events,
                  status, got >>

StreamTitleClose ==
  /\ tpc = "close(titleChan)"
  /\ titleChan' = << [titleChan[1] EXCEPT !.closed = TRUE] >>
  /\ tpc' = "done"
  /\ UNCHANGED << councilVars, parserVars, file, hpc, hconv, tconv, title, events,
                  status, got >>

StreamNext ==
  \/ StreamGet
  \/ StreamAddUserLoad
  \/ StreamAddUserSave
  \/ StreamStage1Start
  \/ StreamStage1Complete
  \/ StreamStage2Start
  \/ StreamStage2Complete
  \/ StreamStage3Start
  \/ StreamStage3Complete
  \/ StreamReceiveTitle
  \/ StreamAddAssistantLoad
  \/ StreamAddAssistantSave
  \/ TitleGenerate
  \/ TitleUpdateLoad
  \/ StreamTitleUpdateSave
  \/ StreamTitleSend
  \/ StreamTitleClose

StreamSpec == StreamInit /\ [][StreamNext]_vars

\* the six stage events in the order of the handler
StageEvents ==
  << "stage1_start", "stage1_complete", "stage2_start", "stage2_complete",
     "stage3_start", "stage3_complete" >>

\* C28: the events of the streaming handler follow the fixed order
\* stage1_start, stage1_complete, stage2_start, stage2_complete, stage3_start,
\* stage3_complete, optionally title_complete, complete (an error event can
\* only close the stream); no event of a later stage comes before the
\* complete event of the earlier stage, and a stream that ended without an
\* error event ends with complete.
C28_EventsInFixedOrder ==
  LET OrderedStreams ==
        { SubSeq(StageEvents, 1, k) : k \in 0..Len(StageEvents) }
        \cup { StageEvents \o tail :
                 tail \in { << "title_complete" >>, << "complete" >>,
                            << "title_complete", "complete" >> } }
      BeforeError ==
        IF events # << >> /\ EventTypes[Len(events)] = "error"
        THEN SubSeq(EventTypes, 1, Len(events) - 1)
        ELSE EventTypes
  IN  /\ BeforeError \in OrderedStreams
      /\ \A i \in 1..Len(events) :
           EventTypes[i] \in { "complete", "error" } => i = Len(events)
      /\ (hpc = "done" /\ events # << >> /\ EventTypes[Len(events)] # "error")
           => EventTypes[Len(events)] = "complete"

C28_Witness ==
  /\ hpc = "done"
  /\ EventTypes = StageEvents \o << "title_complete", "complete" >>

----------------------------------------------------------------------------
(* Claims C31..C39                                                         *)

\* C31: QueryModelsParallel returns an error when every model of the call
\* failed, and the map of model names to responses otherwise.
C31_ErrorWhenAllFail ==
  \A s \in 1..2 :
    qmp[s] # Nil =>
      IF N > 0 /\ \A i \in 1..N : task[s][i].err # NoError
      THEN qmp[s][1].err # NoError
      ELSE /\ qmp[s][1].err = NoError
           /\ qmp[s][1].responses = results[s]

\* C32: the per-model tasks of a stage write the result map only while
\* holding the one mutex: at most one task is between mu.Lock() and
\* mu.Unlock(), it is the holder, and a step that changes the map is the
\* write of the task that just took the mutex, to the entry of its own
\* model, leaving every other entry as it was.
C32_WritesUnderTheMutex ==
  /\ [](\A s \in 1..2 :
          /\ Cardinality({ i \in 1..N : task[s][i].pc = "Unlock" }) <= 1
          /\ \A i \in 1..N : task[s][i].pc = "Unlock" <=> mu[s] = i)
  /\ [][\A s \in 1..2 :
          results'[s] # results[s] =>
            \E i \in 1..N :
              /\ mu[s] = 0
              /\ mu'[s] = i
              /\ task[s][i].pc = "Lock"
              /\ DOMAIN results'[s] = DOMAIN results[s] \cup { CouncilModels[i] }
              /\ \A m \in DOMAIN results[s] \ { CouncilModels[i] } :
                   results'[s][m] = results[s][m]]_vars

C32_Witness ==
  \E s \in 1..2 : \E i, j \in 1..N :
    /\ i # j
    /\ task[s][i].pc = "Unlock"
    /\ mu[s] = i
    /\ task[s][j].pc = "Lock"
    /\ CouncilModels[i] \in DOMAIN results[s]
    /\ CouncilModels[j] \notin DOMAIN results[s]

\* C33: in the streaming handler an empty Stage-1 result (every council
\* model failed) ends the stream with an error event: no stage2_start and no
\* event of Stage 2 or Stage 3 follows it.
C33_StreamStopsOnEmptyStage1 ==
  \A i \in 1..Len(events) :
    (events[i].type = "stage1_complete" /\ events[i].data = << >>) =>
      \A j \in (i + 1)..Len(events) : events[j].type = "error" /\ j = i + 1

\* C34: in one stream error and complete exclude each other: after an error
\* event no event is written and the stored messages stay as they are, and
\* complete is written only with the assistant message of this run stored as
\* the last message of the conversation; no assistant message is stored
\* without complete being written.
C34_ErrorOrComplete ==
  /\ [](~({ "error", "complete" } \subseteq { events[i].type : i \in 1..Len(events) }))
  /\ [][ LET Types(e) == { e[i].type : i \in 1..Len(e) }
             Stored(f) == IF GetConversation(f) = Nil THEN << >>
                          ELSE GetConversation(f)[1].Messages
         IN  /\ "error" \in Types(events) =>
                  /\ events' = events
                  /\ Stored(file') = Stored(file)
             /\ ("complete" \in Types(events') /\ "complete" \notin Types(events)) =>
                  /\ stage3Result # Nil
                  /\ Stored(file') =
                       Append(Stored(file),
                              AssistantMessage(stage1Results, stage2Results,
                                               stage3Result[1]))
             /\ (/\ Len(Stored(file')) > Len(Stored(file))
                 /\ Stored(file')[Len(Stored(file'))].Role = "assistant")
                  => events' = Append(events, Event("complete", Nil)) ]_vars

C34_Witness ==
  /\ hpc = "done"
  /\ events # << >>
  /\ events[Len(events)].type = "complete"
  /\ GetConversation(file) # Nil
  /\ LET stored == GetConversation(file)[1].Messages
     IN  /\ Len(stored) >= 2
         /\ stored[Len(stored)] =
              AssistantMessage(stage1Results, stage2Results, stage3Result[1])
         /\ stage1Results # << >>

\* the streaming handler with its scheduling: the handler and the title
\* goroutine each take their next step when it stays possible (the Go
\* scheduler runs every runnable goroutine; the title query is bounded by
\* TitleGenTimeout and the file operations return)
StreamLiveSpec ==
  /\ StreamSpec
  /\ WF_vars(\/ StreamGet \/ StreamAddUserLoad \/ StreamAddUserSave
             \/ StreamStage1Start \/ StreamStage1Complete
             \/ StreamStage2Start \/ StreamStage2Complete
             \/ StreamStage3Start \/ StreamStage3Complete
             \/ StreamReceiveTitle
             \/ StreamAddAssistantLoad \/ StreamAddAssistantSave)
  /\ WF_vars(\/ TitleGenerate \/ TitleUpdateLoad \/ StreamTitleUpdateSave
             \/ StreamTitleSend \/ StreamTitleClose)

\* C35: the title goroutine of the streaming handler cannot deadlock: the
\* channel never holds more than one title, the send finds the buffer free
\* and the channel open, the handler's receive always returns, with the
\* generated title or with the empty value when generation failed, and the
\* goroutine always terminates, also after the handler returned on an error.
C35_TitleChannelNeverBlocks ==
  /\ [](titleChan # Nil => Len(titleChan[1].buf) <= 1)
  /\ [](tpc = "titleChan <- title" =>
          titleChan[1].buf = << >> /\ ~titleChan[1].closed)
  /\ [][ (hpc = "<-titleChan" /\ hpc' # hpc) =>
           /\ title # Nil
           /\ events' = IF title[1].err = NoError /\ title[1].title # ""
                        THEN Append(events,
                                    Event("title_complete", [title |-> title[1].title]))
                        ELSE events ]_vars
  /\ (hpc = "<-titleChan") ~> (hpc = "stream.AddAssistantMessage")
  /\ (tpc = "GenerateConversationTitle") ~> (tpc = "done")

C35_Witness ==
  /\ hpc = "done"
  /\ events # << >>
  /\ events[Len(events)].type = "error"
  /\ tpc = "done"
  /\ titleChan # Nil
  /\ titleChan[1].closed
  /\ Len(titleChan[1].buf) = 1

\* C36: sendMessageHandler has stored the user message when the council
\* runs, and appends an assistant message only after RunFullCouncil returned
\* without error; when the run failed the handler answers 500 and the stored
\* messages stay as AddUserMessage left them: the user message is the last
\* one, no assistant message follows and nothing is rolled back.
C36_UserMessageKeptOnFailure ==
  /\ []((hpc = "RunFullCouncil" \/ (hpc = "done" /\ ret # NoRet /\ ret.err # NoError)) =>
          /\ GetConversation(file) # Nil
          /\ GetConversation(file)[1].Messages # << >>
          /\ LET stored == GetConversation(file)[1].Messages
             IN  stored[Len(stored)] = UserMessage(userQuery)
          /\ hpc = "done" => status = 500)
  /\ [][ LET Stored(f) == IF GetConversation(f) = Nil THEN << >>
                          ELSE GetConversation(f)[1].Messages
         IN  /\ (ret' # NoRet /\ ret'.err # NoError) => Stored(file') = Stored(file)
             /\ (/\ Len(Stored(file')) > Len(Stored(file))
                 /\ Stored(file')[Len(Stored(file'))].Role = "assistant")
                  => /\ ret # NoRet
                     /\ ret.err = NoError
                     /\ Stored(file') =
                          Append(Stored(file),
                                 AssistantMessage(ret.stage1, ret.stage2, ret.stage3)) ]_vars

C36_Witness ==
  /\ hpc = "done"
  /\ status = 500
  /\ ret = ErrorReturn("stage 3 failed")
  /\ tpc = "done"
  /\ GetConversation(file) # Nil
  /\ GetConversation(file)[1].Messages = << UserMessage(userQuery) >>
  /\ GetConversation(file)[1].Title = "Go Language"

\* C37: when the text has the marker more than once, the ranking section is
\* all the text after the first marker, the text after later markers
\* included: the result is the numbered labels of that text, or all its
\* labels when none is numbered.
C37_SectionRunsToTheEnd ==
  LET t == parserText
      after == (Least(MarkerPositions(t)) + 1)..Len(t)
  IN  (/\ Parsed
       /\ Cardinality(MarkerPositions(t)) >= 2
       /\ LabelPositions(t, after) # {})
        => parserResult[1] =
             TokensAt(t, IF NumberedPositions(t, after) # {}
                         THEN NumberedPositions(t, after)
                         ELSE LabelPositions(t, after))

----------------------------------------------------------------------------
(* The labelling loop of Stage2CollectRankings on its own: every number of *)
(* Stage-1 results up to MaxResults, and a ranker that lists every label   *)

\* the i-th council model of a long CouncilModels list
ModelName(i) == "council/model-" \o ToString(i)

LabelInit ==
  /\ \E n \in 0..MaxResults : \E t \in AnswerTexts :
       /\ CouncilModels = [ i \in 1..n |-> ModelName(i) ]
       /\ stage1Results = [ i \in 1..n |-> [Model |-> ModelName(i), Response |-> t] ]
  /\ pc = "stage2"
  /\ labelToModel = << >>
  /\ parserText = << >>
  /\ parserResult = Nil
  /\ ChairmanModel = ModelPool[2]
  /\ userQuery = "What is Go?"
  /\ cancelled = FALSE
  /\ task = [s \in 1..2 |-> << >>]
  /\ results = [s \in 1..2 |-> << >>]
  /\ mu = [s \in 1..2 |-> 0]
  /\ gerr = [s \in 1..2 |-> NoError]
  /\ qmp = [s \in 1..2 |-> Nil]
  /\ messages = [s \in 1..3 |-> << >>]
  /\ chairman = IdleTask
  /\ stage2Results = << >>
  /\ aggregateRankings = << >>
  /\ stage3Result = Nil
  /\ ret = NoRet
  /\ NoRequest

\* the loop of Stage2CollectRankings that fills labelToModel
LabelCall ==
  /\ pc = "stage2"
  /\ labelToModel = << >>
  /\ stage1Results # << >>
  /\ labelToModel' = LabelToModel(stage1Results)
  /\ UNCHANGED << CouncilModels, ChairmanModel, userQuery, cancelled, pc, task,
                  results, mu, gerr, qmp, messages, chairman, stage1Results,
                  stage2Results, aggregateRankings, stage3Result, ret, parserVars,
                  serverVars >>

\* a ranker answers as the prompt asks, FINAL RANKING: and one numbered
\* entry per label of the prompt, and the answer is parsed
LabelRank ==
  /\ pc = "stage2"
  /\ labelToModel # << >>
  /\ parserResult = Nil
  /\ parserText' =
       [ k \in 1..(1 + 3 * Len(stage1Results)) |->
           IF k = 1 THEN Marker
           ELSE LET r == (k - 2) % 3
                    i == (k - 2) \div 3
                IN  IF r = 0 THEN "1"
                    ELSE IF r = 1 THEN "."
                    ELSE LabelKey(i) ]
  /\ parserResult' = << ParseRankingFromText(parserText') >>
  /\ UNCHANGED << CouncilModels, ChairmanModel, userQuery, cancelled, pc, task,
                  results, mu, gerr, qmp, messages, chairman, stage1Results,
                  stage2Results, labelToModel, aggregateRankings, stage3Result, ret,
                  serverVars >>

LabelNext == LabelCall \/ LabelRank

LabelSpec == LabelInit /\ [][LabelNext]_vars

\* C38: for any number of Stage-1 results every key of the label map is a
\* label the parser can emit (Response and one letter A-Z), so a ranking that
\* lists every label of the prompt parses to one entry per Stage-1 result and
\* every Stage-1 model is referred to by it.
C38_EveryLabelCanBeParsed ==
  /\ DOMAIN labelToModel \subseteq ResponseLabels
  /\ Parsed =>
       /\ Len(parserResult[1]) = Len(stage1Results)
       /\ \A i \in 1..Len(stage1Results) :
            \E j \in 1..Len(parserResult[1]) :
              /\ parserResult[1][j] \in DOMAIN labelToModel
              /\ labelToModel[parserResult[1][j]] = stage1Results[i].Model

\* C39: the aggregate does not depend on the order of the ranking records:
\* for every permutation of stage2Results, every slice the function may
\* return holds the same (model, average rank, count) triples as the one it
\* returned, and entries of different average rank stand in the same order;
\* only entries of equal average rank may change places.
C39_RecordOrderDoesNotMatter ==
  Aggregated =>
    \A perm \in Orderings(1..Len(stage2Results)) :
      \A other \in CalculateAggregateRankings(
                     [ i \in 1..Len(stage2Results) |-> stage2Results[perm[i]] ],
                     labelToModel) :
        /\ Len(other) = Len(aggregateRankings)
        /\ { other[i] : i \in 1..Len(other) }
             = { aggregateRankings[i] : i \in 1..Len(aggregateRankings) }
        /\ \A i, j \in 1..Len(other) :
             (i < j /\ RankLess(other[i], other[j])) =>
               \E k, l \in 1..Len(aggregateRankings) :
                 /\ k < l
                 /\ aggregateRankings[k] = other[i]
                 /\ aggregateRankings[l] = other[j]

C39_Witness ==
  /\ Aggregated
  /\ Len(stage2Results) = 2
  /\ Len(aggregateRankings) = 2
  /\ RankLess(aggregateRankings[1], aggregateRankings[2])
  /\ \E m \in { aggregateRankings[1].Model, aggregateRankings[2].Model } :
       ModelPositions(stage2Results, labelToModel, m)
         # ModelPositions(<< stage2Results[2], stage2Results[1] >>, labelToModel, m)

====
